---- MODULE Spec2Model ----
(***************************************************************************)
(* Verification model of the cutout-gdext geometry core:                   *)
(*   contour/marching_squares.rs, contour/grid.rs, common/mod.rs,          *)
(*   fracture/voronoi.rs, fracture/slice.rs, fracture/geometry.rs.         *)
(*                                                                         *)
(* Conventions.                                                            *)
(*   Option<T>   None is <<>>, Some(v) is <<v>>.                            *)
(*   Vector2i    a pair <<x, y>> of integers.                              *)
(*   Vector2     an exact rational point <<xn, yn, d>> standing for        *)
(*               (xn/d, yn/d), d > 0, in lowest terms.  f32 rounding is    *)
(*               not modelled: all coordinates of the bounded inputs and   *)
(*               their halves are exactly representable.                   *)
(***************************************************************************)
EXTENDS Integers, Sequences, FiniteSets, TLC

VARIABLES
    grid_width,     \* Grid2D.width
    grid_height,    \* Grid2D.height
    grid_data,      \* Grid2D.data, row-major, index i of the Vec is grid_data[i+1]
    pc,             \* position inside the operation under analysis
    segments,       \* marching_squares: the Vec returned by generate_segments
    visited,        \* chain_segments: HashSet of endpoint keys
    contours,       \* chain_segments: the Vec of contours built so far
    result,         \* the value returned by calculate
    probe,          \* grid lookup: last (x, y, returned Option) of Grid2D<bool>::get
    polygons,       \* fracture: the input list, outer boundary first, then holes
    seed_points,    \* voronoi::fracture: the seed points
    line_start,     \* slice::fracture: first end of the slice line
    line_end,       \* slice::fracture: second end of the slice line
    triangulation,  \* voronoi::fracture: what delaunay() returned, None before the call
    voronoi_cells,  \* voronoi::fracture: the cells of compute_voronoi_cells
    cell_idx,       \* voronoi::fracture: the next cell of `for cell in &voronoi_cells`
    fragments,      \* fracture: the fragments collected so far
    clip_rects,     \* slice::fracture: <<left_clip, right_clip>> once built
    clip_calls,     \* number of calls made to the boolean clipper
    rng,            \* random generators: two runs started from one seed, None when idle
    gen,            \* seed generation: the generator's locals, None when idle
    call,           \* a call of a pure function: its arguments and its value, None when idle
    slices,         \* parallel slices: the locals of the two runs compared, None when idle
    trace           \* moore_neighbour::calculate: the locals of the trace, None when idle

gridVars == <<grid_width, grid_height, grid_data>>
contourVars == <<segments, visited, contours, probe>>
fractureVars == <<polygons, seed_points, line_start, line_end, triangulation,
                  voronoi_cells, cell_idx, fragments, clip_rects, clip_calls>>

vars == <<gridVars, contourVars, fractureVars, pc, result, rng, gen, call, slices, trace>>

(***************************************************************************)
(* Bounds of the model.                                                    *)
(***************************************************************************)
\* The largest number of pixels (width * height) of a grid.
MaxCells == 6
\* The largest number of seed points handed to voronoi::fracture.
MaxSeeds == 3
\* The largest number of hole polygons after the outer boundary.
MaxHoles == 1
\* The largest number of triangles the triangulator is let to return.
MaxTriangles == 1

(***************************************************************************)
(* Exact rational points.                                                  *)
(***************************************************************************)
Abs(a) == IF a < 0 THEN -a ELSE a

RECURSIVE GCD(_, _)
GCD(a, b) == IF b = 0 THEN Abs(a) ELSE GCD(b, a % b)

\* The point (xn/d, yn/d), d > 0, reduced to lowest terms.
DivideVec2(xn, yn, d, g) == <<xn \div g, yn \div g, d \div g>>
Vec2(xn, yn, d) ==
    IF d = 1 THEN <<xn, yn, 1>>
    ELSE DivideVec2(xn, yn, d, GCD(GCD(Abs(xn), Abs(yn)), d))

None == <<>>
Some(v) == <<v>>

(***************************************************************************)
(* Exact scalars <<n, d>>, d > 0, in lowest terms, and vector arithmetic   *)
(* on points.                                                              *)
(***************************************************************************)
DivideRat(n, d, g) == <<n \div g, d \div g>>
Rat(n, d) == IF d = 1 THEN <<n, 1>> ELSE DivideRat(n, d, GCD(Abs(n), d))
RAdd(a, b) == Rat(a[1] * b[2] + b[1] * a[2], a[2] * b[2])
RSub(a, b) == Rat(a[1] * b[2] - b[1] * a[2], a[2] * b[2])
RMul(a, b) == Rat(a[1] * b[1], a[2] * b[2])
\* a / b, b # 0
RDiv(a, b) ==
    IF b[1] > 0 THEN Rat(a[1] * b[2], a[2] * b[1])
    ELSE Rat(0 - a[1] * b[2], 0 - a[2] * b[1])
RLess(a, b) == a[1] * b[2] < b[1] * a[2]
RMin(a, b) == IF RLess(b, a) THEN b ELSE a
RMax(a, b) == IF RLess(a, b) THEN b ELSE a
Zero == Rat(0, 1)
RAbs(a) == <<Abs(a[1]), a[2]>>

XOf(p) == Rat(p[1], p[3])
YOf(p) == Rat(p[2], p[3])
\* Vector2::new(x, y) from two scalars.
Vector2(x, y) == Vec2(x[1] * y[2], y[1] * x[2], x[2] * y[2])
VAdd(a, b) == Vec2(a[1] * b[3] + b[1] * a[3], a[2] * b[3] + b[2] * a[3], a[3] * b[3])
VSub(a, b) == Vec2(a[1] * b[3] - b[1] * a[3], a[2] * b[3] - b[2] * a[3], a[3] * b[3])
\* v * (n / d), d > 0
VScale(a, r) == Vec2(a[1] * r[1], a[2] * r[1], a[3] * r[2])
VDot(a, b) == Rat(a[1] * b[1] + a[2] * b[2], a[3] * b[3])

(***************************************************************************)
(* fracture/geometry.rs.                                                   *)
(***************************************************************************)
RECURSIVE FoldMin(_, _, _)
FoldMin(xs, i, acc) == IF i > Len(xs) THEN acc ELSE FoldMin(xs, i + 1, RMin(acc, xs[i]))
RECURSIVE FoldMax(_, _, _)
FoldMax(xs, i, acc) == IF i > Len(xs) THEN acc ELSE FoldMax(xs, i + 1, RMax(acc, xs[i]))

\* calculate_bounds: a Rect2 [position, size].
calculate_bounds(polygon) ==
    IF polygon = <<>> THEN [position |-> Vec2(0, 0, 1), size |-> Vec2(0, 0, 1)]
    ELSE LET xs == [i \in 1..Len(polygon) |-> XOf(polygon[i])]
             ys == [i \in 1..Len(polygon) |-> YOf(polygon[i])]
             min_x == FoldMin(xs, 2, xs[1])
             max_x == FoldMax(xs, 2, xs[1])
             min_y == FoldMin(ys, 2, ys[1])
             max_y == FoldMax(ys, 2, ys[1])
         IN  [position |-> Vector2(min_x, min_y),
              size |-> Vector2(RSub(max_x, min_x), RSub(max_y, min_y))]

\* Mutant of ShoelaceFrom: the edge from the last point back to the first is
\* left out of the sum.
RECURSIVE ShoelaceFrom_NoWrap(_, _, _)
ShoelaceFrom_NoWrap(polygon, i, area) ==
    IF i >= Len(polygon) THEN area
    ELSE LET j == i + 1
             plus == RMul(XOf(polygon[i]), YOf(polygon[j]))
             minus == RMul(XOf(polygon[j]), YOf(polygon[i]))
         IN  ShoelaceFrom_NoWrap(polygon, i + 1, RSub(RAdd(area, plus), minus))

\* polygon_area: the shoelace sum, halved.
RECURSIVE ShoelaceFrom(_, _, _)
ShoelaceFrom(polygon, i, area) ==
    IF i > Len(polygon) THEN area
    ELSE LET j == (i % Len(polygon)) + 1
             plus == RMul(XOf(polygon[i]), YOf(polygon[j]))
             minus == RMul(XOf(polygon[j]), YOf(polygon[i]))
         IN  ShoelaceFrom(polygon, i + 1, RSub(RAdd(area, plus), minus))

polygon_area(polygon) ==
    IF Len(polygon) < 3 THEN Zero
    ELSE RMul(ShoelaceFrom(polygon, 1, Zero), Rat(1, 2))

\* Mutant of ClipFrom: a vertex on the plane counts as outside.
RECURSIVE ClipFrom_Strict(_, _, _, _, _)
ClipFrom_Strict(polygon, plane_point, plane_normal, i, clipped) ==
    IF i > Len(polygon) THEN clipped
    ELSE LET current == polygon[i]
             next == polygon[(i % Len(polygon)) + 1]
             current_dist == VDot(VSub(current, plane_point), plane_normal)
             next_dist == VDot(VSub(next, plane_point), plane_normal)
             current_inside == RLess(Zero, current_dist)
             next_inside == RLess(Zero, next_dist)
             with_current == IF current_inside THEN Append(clipped, current) ELSE clipped
             t == RDiv(current_dist, RSub(current_dist, next_dist))
             intersection == VAdd(current, VScale(VSub(next, current), t))
         IN  ClipFrom_Strict(polygon, plane_point, plane_normal, i + 1,
                             IF current_inside # next_inside
                             THEN Append(with_current, intersection)
                             ELSE with_current)

\* clip_polygon_to_half_plane.  plane_normal is used up to a positive factor:
\* the sign of each distance and the parameter t = d0 / (d0 - d1) do not
\* depend on its length.
RECURSIVE ClipFrom(_, _, _, _, _)
ClipFrom(polygon, plane_point, plane_normal, i, clipped) ==
    IF i > Len(polygon) THEN clipped
    ELSE LET current == polygon[i]
             next == polygon[(i % Len(polygon)) + 1]
             current_dist == VDot(VSub(current, plane_point), plane_normal)
             next_dist == VDot(VSub(next, plane_point), plane_normal)
             current_inside == ~RLess(current_dist, Zero)
             next_inside == ~RLess(next_dist, Zero)
             with_current == IF current_inside THEN Append(clipped, current) ELSE clipped
             \* taken on a crossing only, where the two distances differ
             t == RDiv(current_dist, RSub(current_dist, next_dist))
             \* current.lerp(next, t) = current + (next - current) * t
             intersection == VAdd(current, VScale(VSub(next, current), t))
         IN  ClipFrom(polygon, plane_point, plane_normal, i + 1,
                      IF current_inside # next_inside
                      THEN Append(with_current, intersection)
                      ELSE with_current)

clip_polygon_to_half_plane(polygon, plane_point, plane_normal) ==
    IF Len(polygon) < 3 THEN <<>>
    ELSE ClipFrom(polygon, plane_point, plane_normal, 1, <<>>)

(***************************************************************************)
(* common/mod.rs and contour/grid.rs: Grid2D<bool>.                        *)
(***************************************************************************)
\* Mutant of get_at: the index is computed column-major.
get_at_ColumnMajor(x, y) ==
    IF x < grid_width /\ y < grid_height
    THEN Some(grid_data[x * grid_height + y + 1])
    ELSE None

\* Grid2D::get_at(x: usize, y: usize)
get_at(x, y) ==
    IF x < grid_width /\ y < grid_height
    THEN Some(grid_data[y * grid_width + x + 1])
    ELSE None

\* Grid2D<bool>::get(x: i32, y: i32)
get(x, y) ==
    IF x < 0 \/ y < 0 THEN None ELSE get_at(x, y)

\* Option::unwrap_or
unwrap_or(opt, default) == IF opt = None THEN default ELSE opt[1]

(***************************************************************************)
(* contour/marching_squares.rs.                                            *)
(***************************************************************************)
\* Mutant of SEGMENT_LOOKUP: the entries of codes 3 and 6 are exchanged.
SEGMENT_LOOKUP_Exchanged ==
    << <<>>,
       << <<"Left", "Bottom">> >>,
       << <<"Bottom", "Right">> >>,
       << <<"Bottom", "Top">> >>,
       << <<"Right", "Top">> >>,
       << <<"Left", "Top">>, <<"Bottom", "Right">> >>,
       << <<"Left", "Right">> >>,
       << <<"Left", "Top">> >>,
       << <<"Top", "Left">> >>,
       << <<"Top", "Bottom">> >>,
       << <<"Top", "Right">>, <<"Left", "Bottom">> >>,
       << <<"Top", "Right">> >>,
       << <<"Right", "Left">> >>,
       << <<"Right", "Bottom">> >>,
       << <<"Bottom", "Left">> >>,
       <<>> >>

SEGMENT_LOOKUP ==
    << <<>>,                                                \*  0: 0000
       << <<"Left", "Bottom">> >>,                          \*  1: 0001
       << <<"Bottom", "Right">> >>,                         \*  2: 0010
       << <<"Left", "Right">> >>,                           \*  3: 0011
       << <<"Right", "Top">> >>,                            \*  4: 0100
       << <<"Left", "Top">>, <<"Bottom", "Right">> >>,      \*  5: 0101
       << <<"Bottom", "Top">> >>,                           \*  6: 0110
       << <<"Left", "Top">> >>,                             \*  7: 0111
       << <<"Top", "Left">> >>,                             \*  8: 1000
       << <<"Top", "Bottom">> >>,                           \*  9: 1001
       << <<"Top", "Right">>, <<"Left", "Bottom">> >>,      \* 10: 1010
       << <<"Top", "Right">> >>,                            \* 11: 1011
       << <<"Right", "Left">> >>,                           \* 12: 1100
       << <<"Right", "Bottom">> >>,                         \* 13: 1101
       << <<"Bottom", "Left">> >>,                          \* 14: 1110
       <<>> >>                                              \* 15: 1111

\* Mutant of edge_to_point: the bottom edge is placed on the cell's top row.
edge_to_point_BottomOnTop(cx, cy, edge) ==
    CASE edge = "Top"    -> <<cx * 2 + 1, cy * 2>>
      [] edge = "Right"  -> <<cx * 2 + 2, cy * 2 + 1>>
      [] edge = "Bottom" -> <<cx * 2 + 1, cy * 2>>
      [] edge = "Left"   -> <<cx * 2, cy * 2 + 1>>

\* The doubled coordinates of the midpoint of an edge of cell (cx, cy).
edge_to_point(cx, cy, edge) ==
    CASE edge = "Top"    -> <<cx * 2 + 1, cy * 2>>
      [] edge = "Right"  -> <<cx * 2 + 2, cy * 2 + 1>>
      [] edge = "Bottom" -> <<cx * 2 + 1, cy * 2 + 2>>
      [] edge = "Left"   -> <<cx * 2, cy * 2 + 1>>

\* Mutant of Corner: a corner outside the grid reads as solid.
Corner_OutsideSolid(x, y) == unwrap_or(get(x, y), TRUE)

\* The four corner reads of cell (cx, cy), out-of-range corners read as false.
Corner(x, y) == unwrap_or(get(x, y), FALSE)

\* let config = (tl: 8) | (tr: 4) | (br: 2) | (bl: 1): the bits are disjoint,
\* so the bitwise or is the sum.
config_of(tl, tr, br, bl) ==
      (IF tl THEN 8 ELSE 0)
    + (IF tr THEN 4 ELSE 0)
    + (IF br THEN 2 ELSE 0)
    + (IF bl THEN 1 ELSE 0)

\* The configuration code of cell (cx, cy).
CellConfig(cx, cy) ==
    config_of(Corner(cx, cy), Corner(cx + 1, cy), Corner(cx + 1, cy + 1), Corner(cx, cy + 1))

\* The segments one cell contributes, in table order.
CellSegments(cx, cy) ==
    LET cell == SEGMENT_LOOKUP[CellConfig(cx, cy) + 1]
    IN  [i \in 1..Len(cell) |->
            <<edge_to_point(cx, cy, cell[i][1]), edge_to_point(cx, cy, cell[i][2])>>]

\* Mutant of SegmentsFrom: no halo, cy in 0..height-1 and cx in 0..width-1.
RECURSIVE SegmentsFrom_NoHalo(_)
SegmentsFrom_NoHalo(i) ==
    IF i >= grid_width * grid_height THEN <<>>
    ELSE CellSegments(i % grid_width, i \div grid_width) \o SegmentsFrom_NoHalo(i + 1)

\* Cells are visited row by row: cy in -1..height-1, cx in -1..width-1.
RECURSIVE SegmentsFrom(_)
SegmentsFrom(i) ==
    LET cols == grid_width + 1
        rows == grid_height + 1
    IN  IF i >= cols * rows THEN <<>>
        ELSE CellSegments((i % cols) - 1, (i \div cols) - 1) \o SegmentsFrom(i + 1)

generate_segments == SegmentsFrom(0)

\* adjacency[k] of chain_segments: the neighbours of key k in push order.
RECURSIVE Neighbours(_, _)
Neighbours(segs, k) ==
    IF segs = <<>> THEN <<>>
    ELSE LET s == Head(segs)
         IN  (IF s[1] = k THEN <<s[2]>> ELSE <<>>)
             \o (IF s[2] = k THEN <<s[1]>> ELSE <<>>)
             \o Neighbours(Tail(segs), k)

\* The keys of the adjacency map.
AdjacencyKeys(segs) == {segs[i][1] : i \in 1..Len(segs)} \cup {segs[i][2] : i \in 1..Len(segs)}

\* Mutant of KeyToVector2: the doubled key is not halved.
KeyToVector2_NotHalved(k) == Vec2(k[1], k[2], 1)

\* Vector2::new(key.0 as f32 / 2.0, key.1 as f32 / 2.0)
KeyToVector2(k) == Vec2(k[1], k[2], 2)

\* Mutant of Walk: the next key is the first neighbour, visited or not.
RECURSIVE Walk_IgnoresVisited(_, _, _, _, _)
Walk_IgnoresVisited(segs, current, vis, contour, iters) ==
    IF iters = 0 THEN [visited |-> vis, contour |-> contour]
    ELSE LET vis2 == vis \cup {current}
             unv  == Neighbours(segs, current)
         IN  IF unv = <<>>
             THEN [visited |-> vis2, contour |-> contour]
             ELSE Walk_IgnoresVisited(segs, unv[1], vis2,
                                      Append(contour, KeyToVector2(unv[1])), iters - 1)

\* The bounded walk of one component: `iters` iterations are left.
RECURSIVE Walk(_, _, _, _, _)
Walk(segs, current, vis, contour, iters) ==
    IF iters = 0 THEN [visited |-> vis, contour |-> contour]
    ELSE LET vis2 == vis \cup {current}
             unv  == SelectSeq(Neighbours(segs, current), LAMBDA n : n \notin vis2)
         IN  IF unv = <<>>
             THEN [visited |-> vis2, contour |-> contour]
             ELSE Walk(segs, unv[1], vis2, Append(contour, KeyToVector2(unv[1])), iters - 1)

\* Mutant of ChainFrom: max_iter is three, so a longer component is left in
\* several parts.
ChainFrom_ShortBudget(segs, start, vis) == Walk(segs, start, vis, <<KeyToVector2(start)>>, 3)

\* One iteration of the loop over adjacency.iter() that starts at an unvisited key.
ChainFrom(segs, start, vis) == Walk(segs, start, vis, <<KeyToVector2(start)>>, Len(segs))

\* Mutant of KeepContour: contours of four points are dropped too.
KeepContour_LongOnly(contour) == Len(contour) > 4

\* contour.len() > 2
KeepContour(contour) == Len(contour) > 2

\* contours.sort_by(|a, b| b.len().cmp(&a.len())): stable, longest first.
RECURSIVE InsertByLen(_, _)
InsertByLen(sorted, c) ==
    IF sorted = <<>> THEN <<c>>
    ELSE IF Len(Head(sorted)) >= Len(c)
         THEN <<Head(sorted)>> \o InsertByLen(Tail(sorted), c)
         ELSE <<c>> \o sorted

RECURSIVE SortFrom(_, _, _)
SortFrom(cs, i, acc) ==
    IF i > Len(cs) THEN acc ELSE SortFrom(cs, i + 1, InsertByLen(acc, cs[i]))

\* Mutant of sort_by_len_desc: the contours are returned in discovery order.
sort_by_len_desc_Unsorted(cs) == cs

sort_by_len_desc(cs) == SortFrom(cs, 1, <<>>)

(***************************************************************************)
(* Initial states: every grid within the bounds.                           *)
(***************************************************************************)
InitGrid ==
    /\ grid_width \in 0..MaxCells
    /\ grid_height \in 0..MaxCells
    /\ grid_width * grid_height <= MaxCells
    /\ grid_data \in [1..(grid_width * grid_height) -> BOOLEAN]

\* The variables of the fracture operations while a contour operation runs.
FractureIdle ==
    /\ polygons = <<>>
    /\ seed_points = <<>>
    /\ line_start = Vec2(0, 0, 1)
    /\ line_end = Vec2(0, 0, 1)
    /\ triangulation = None
    /\ voronoi_cells = <<>>
    /\ cell_idx = 0
    /\ fragments = <<>>
    /\ clip_rects = <<>>
    /\ clip_calls = 0

InitContour ==
    /\ rng = None /\ gen = None /\ call = None /\ slices = None /\ trace = None
    /\ InitGrid
    /\ FractureIdle
    /\ pc = "generate"
    /\ segments = <<>>
    /\ visited = {}
    /\ contours = <<>>
    /\ result = <<>>
    /\ probe = None

(***************************************************************************)
(* marching_squares::calculate, in its three phases.                       *)
(***************************************************************************)
\* let segments = generate_segments(grid);
GenerateSegments ==
    /\ UNCHANGED <<rng, gen, call, slices, trace>>
    /\ pc = "generate"
    /\ segments' = generate_segments
    /\ pc' = "chain"
    /\ UNCHANGED <<gridVars, visited, contours, result, probe, fractureVars>>

\* One pass of `for (start_key, _) in adjacency.iter()` that does not `continue`.
\* HashMap iteration order is unspecified: any unvisited key may come next.
ChainComponent ==
    /\ UNCHANGED <<rng, gen, call, slices, trace>>
    /\ pc = "chain"
    /\ \E start \in AdjacencyKeys(segments) \ visited :
          LET w == ChainFrom(segments, start, visited)
          IN  /\ visited' = w.visited
              /\ contours' = IF KeepContour(w.contour)
                             THEN Append(contours, w.contour)
                             ELSE contours
    /\ UNCHANGED <<gridVars, pc, segments, result, probe, fractureVars>>

\* The loop is exhausted: sort and return.
SortAndReturn ==
    /\ UNCHANGED <<rng, gen, call, slices, trace>>
    /\ pc = "chain"
    /\ AdjacencyKeys(segments) \subseteq visited
    /\ result' = sort_by_len_desc(contours)
    /\ pc' = "done"
    /\ UNCHANGED <<gridVars, segments, visited, contours, probe, fractureVars>>

NextContour == GenerateSegments \/ ChainComponent \/ SortAndReturn

SpecContour == InitContour /\ [][NextContour]_vars


(***************************************************************************)
(* chain_segments on its own, on any list of segments: open chains, keys   *)
(* of one or of more than two neighbours, repeated segments.               *)
(***************************************************************************)
\* The largest number of segments handed to chain_segments.
MaxSegments == 3

\* Doubled keys: the four edge midpoints of cell (0, 0).
ChainKeys == {<<1, 0>>, <<2, 1>>, <<1, 2>>, <<0, 1>>}
SegmentLists ==
    UNION {[1..n -> {s \in ChainKeys \X ChainKeys : s[1] # s[2]}] : n \in 0..MaxSegments}

InitChain ==
    /\ rng = None /\ gen = None /\ call = None /\ slices = None /\ trace = None
    /\ grid_width = 0 /\ grid_height = 0 /\ grid_data = <<>>
    /\ FractureIdle
    /\ pc = "chain"
    /\ segments \in SegmentLists
    /\ visited = {}
    /\ contours = <<>>
    /\ result = <<>>
    /\ probe = None

NextChain == ChainComponent \/ SortAndReturn

SpecChain == InitChain /\ [][NextChain]_vars

(***************************************************************************)
(* Grid lookups on their own: Grid2D<bool>::get at any signed coordinate   *)
(* around the grid.                                                        *)
(***************************************************************************)
InitGridLookup ==
    /\ rng = None /\ gen = None /\ call = None /\ slices = None /\ trace = None
    /\ InitGrid
    /\ FractureIdle
    /\ pc = "lookup"
    /\ segments = <<>>
    /\ visited = {}
    /\ contours = <<>>
    /\ result = <<>>
    /\ probe = None

\* grid.get(x, y) for one signed coordinate pair.
GridGet ==
    /\ UNCHANGED <<rng, gen, call, slices, trace>>
    /\ pc = "lookup"
    /\ \E x \in (0 - 2)..(grid_width + 1), y \in (0 - 2)..(grid_height + 1) :
          probe' = Some([x |-> x, y |-> y, value |-> get(x, y)])
    /\ UNCHANGED <<gridVars, pc, segments, visited, contours, result, fractureVars>>

NextGridLookup == GridGet

SpecGrid == InitGridLookup /\ [][NextGridLookup]_vars

(***************************************************************************)
(* Inputs of the fracture operations.                                      *)
(***************************************************************************)
SeqsUpTo(S, n) == UNION {[1..k -> S] : k \in 0..n}
Range(f) == {f[i] : i \in DOMAIN f}

OuterSquare == << Vec2(0, 0, 1), Vec2(4, 0, 1), Vec2(4, 4, 1), Vec2(0, 4, 1) >>
OuterTriangle == << Vec2(0, 0, 1), Vec2(4, 0, 1), Vec2(0, 4, 1) >>
OuterDegenerate == << Vec2(0, 0, 1), Vec2(4, 0, 1) >>
HoleTriangle == << Vec2(1, 1, 1), Vec2(2, 1, 1), Vec2(1, 2, 1) >>
HoleDegenerate == << Vec2(1, 1, 1), Vec2(2, 1, 1) >>
OuterPool == {OuterSquare, OuterTriangle, OuterDegenerate}
HolePool == {HoleTriangle, HoleDegenerate}

\* Array<PackedVector2Array>: empty, or an outer boundary followed by holes.
PolygonLists ==
    {<<>>} \cup {<<o>> \o hs : o \in OuterPool, hs \in SeqsUpTo(HolePool, MaxHoles)}

\* Pairwise distinct seed points; the first five lie inside OuterSquare.
SeedPoint(i) ==
    Vec2(1 + ((i - 1) % 3), 1 + ((((i - 1) \div 3) + 2 * ((i - 1) % 3)) % 3), 1)
SeedLists == {[i \in 1..n |-> SeedPoint(i)] : n \in 0..MaxSeeds}

\* Slice lines: both ends on a lattice around and inside the outer polygons,
\* axis-parallel or of zero length, so that the unit direction is exact.
LineCoords == {0 - 1, 1, 3, 5}
LinePoints == {Vec2(x, y, 1) : x \in LineCoords, y \in LineCoords}
SliceLines == {ab \in LinePoints \X LinePoints : ab[1][1] = ab[2][1] \/ ab[1][2] = ab[2][2]}

(***************************************************************************)
(* The external collaborators: clipper2 and delaunator.  Their results are *)
(* inputs of the model: any of the outcomes below may come back.           *)
(***************************************************************************)
PieceTriangle == << Vec2(0, 0, 1), Vec2(2, 0, 1), Vec2(0, 2, 1) >>
PieceDegenerate == << Vec2(0, 0, 1), Vec2(2, 0, 1) >>
PiecePool == {PieceTriangle, PieceDegenerate}

\* Result<Paths, ClipperError>
ClipErr == [ok |-> FALSE, paths |-> <<>>]
ClipOk(paths) == [ok |-> TRUE, paths |-> paths]
IntersectOutcomes ==
    {ClipErr, ClipOk(<<>>), ClipOk(<<PieceTriangle>>), ClipOk(<<PieceDegenerate, PieceTriangle>>)}
DifferenceOutcomes ==
    {ClipErr, ClipOk(<<>>), ClipOk(<<PieceTriangle, PieceDegenerate>>)}

\* delaunator::triangulate(..).triangles: a flat list of point indices, three
\* per triangle, each triangle on three different points of the input.  The
\* indices of a triangle are listed in increasing order.
Triangles(n) ==
    {t \in (0..(n - 1)) \X (0..(n - 1)) \X (0..(n - 1)) : t[1] < t[2] /\ t[2] < t[3]}
FlattenTriangles(ts) == [i \in 1..(3 * Len(ts)) |-> ts[((i - 1) \div 3) + 1][((i - 1) % 3) + 1]]
TriangulateOutcomes(n) ==
    {FlattenTriangles(ts) : ts \in SeqsUpTo(Triangles(n), MaxTriangles)}

(***************************************************************************)
(* fracture/voronoi.rs and fracture/slice.rs: the clipper2 wrappers.       *)
(* to_clipper_path widens f32 to f64 and from_clipper_paths narrows back;  *)
(* both are exact on the coordinates of the pools above.                   *)
(***************************************************************************)
\* clipper2_intersect: Ok(result) => result, Err(_) => Vec::new()
clipper2_intersect(raw) == IF raw.ok THEN raw.paths ELSE <<>>

\* Mutant of clipper2_difference: on an error the subject is dropped.
clipper2_difference_DropsOnError(raw, subject) == IF raw.ok THEN raw.paths ELSE <<>>

\* clipper2_difference: Ok(result) => result, Err(_) => vec![subject.to_vec()]
clipper2_difference(raw, subject) == IF raw.ok THEN raw.paths ELSE <<subject>>

\* The holes collected from polygons[1..]: those of at least three points.
CollectHoles(polys) == SelectSeq(Tail(polys), LAMBDA h : Len(h) >= 3)

\* The pieces of at least three points, in order.
ValidPieces(pieces) == SelectSeq(pieces, LAMBDA q : Len(q) >= 3)

\* The (piece, hole) pairs clipper2's difference can be asked about: the first
\* hole is only subtracted from a fragment of at least three points, later
\* holes from whatever the earlier differences left.
DifferenceCalls(holes) ==
    {pq \in PiecePool \X (1..Len(holes)) : pq[2] = 1 => Len(pq[1]) >= 3}

\* What clipper2's difference may return for every pair it is asked about.
\* It is asked only when a fragment of at least three points is there;
\* otherwise one oracle stands for all.
DifferenceOracles(clipped, holes) ==
    IF ValidPieces(clipped) = <<>>
    THEN {[pq \in DifferenceCalls(holes) |-> ClipErr]}
    ELSE [DifferenceCalls(holes) -> DifferenceOutcomes]

RECURSIVE Concat(_)
Concat(lists) == IF lists = <<>> THEN <<>> ELSE Head(lists) \o Concat(Tail(lists))

(***************************************************************************)
(* fracture/voronoi.rs.                                                    *)
(***************************************************************************)
\* delaunay(): None when the triangulation holds no triangle.
delaunay(triangles) == IF triangles = <<>> THEN None ELSE Some(triangles)

\* if !adjacency[u].contains(&v) { adjacency[u].push(v); }
AddEdge(adj, u, v) ==
    IF v \in Range(adj[u]) THEN adj ELSE [adj EXCEPT ![u] = Append(@, v)]

RECURSIVE AdjacencyFrom(_, _, _)
AdjacencyFrom(triangles, k, adj) ==
    IF 3 * k + 3 > Len(triangles) THEN adj
    ELSE LET a == triangles[3 * k + 1]
             b == triangles[3 * k + 2]
             c == triangles[3 * k + 3]
         IN  AdjacencyFrom(triangles, k + 1,
                 AddEdge(AddEdge(AddEdge(AddEdge(AddEdge(AddEdge(adj,
                     a, b), b, a), b, c), c, b), c, a), a, c))

\* build_adjacency: adjacency[i] for the point indices 0..num_points-1.
build_adjacency(num_points, triangles) ==
    AdjacencyFrom(triangles, 0, [i \in 0..(num_points - 1) |-> <<>>])

\* The clipping of one cell against the bisectors of its neighbours, with the
\* early break once fewer than three points are left.
RECURSIVE ClipToNeighbours(_, _, _, _, _)
ClipToNeighbours(seeds, center, neighbours, k, cell) ==
    IF k > Len(neighbours) THEN cell
    ELSE LET other == seeds[neighbours[k] + 1]
             midpoint == VScale(VAdd(center, other), Rat(1, 2))
             \* (center - other).normalized(), up to its positive length
             normal == VSub(center, other)
             clipped == clip_polygon_to_half_plane(cell, midpoint, normal)
         IN  IF Len(clipped) < 3 THEN clipped
             ELSE ClipToNeighbours(seeds, center, neighbours, k + 1, clipped)

BoundsRect(bounds) ==
    << bounds.position,
       Vector2(RAdd(XOf(bounds.position), XOf(bounds.size)), YOf(bounds.position)),
       VAdd(bounds.position, bounds.size),
       Vector2(XOf(bounds.position), RAdd(YOf(bounds.position), YOf(bounds.size))) >>

RECURSIVE CellsFrom(_, _, _, _, _)
CellsFrom(seeds, adjacency, bounds, i, cells) ==
    IF i > Len(seeds) THEN cells
    ELSE LET cell == ClipToNeighbours(seeds, seeds[i], adjacency[i - 1], 1, BoundsRect(bounds))
         IN  CellsFrom(seeds, adjacency, bounds, i + 1,
                       IF Len(cell) >= 3 THEN Append(cells, cell) ELSE cells)

compute_voronoi_cells(seeds, adjacency, bounds) == CellsFrom(seeds, adjacency, bounds, 1, <<>>)

\* Mutant of rects_intersect: rectangles that only touch count as meeting.
rects_intersect_Touching(a, b) ==
    /\ ~RLess(RAdd(XOf(b.position), XOf(b.size)), XOf(a.position))
    /\ ~RLess(RAdd(XOf(a.position), XOf(a.size)), XOf(b.position))
    /\ ~RLess(RAdd(YOf(b.position), YOf(b.size)), YOf(a.position))
    /\ ~RLess(RAdd(YOf(a.position), YOf(a.size)), YOf(b.position))

\* rects_intersect
rects_intersect(a, b) ==
    /\ RLess(XOf(a.position), RAdd(XOf(b.position), XOf(b.size)))
    /\ RLess(XOf(b.position), RAdd(XOf(a.position), XOf(a.size)))
    /\ RLess(YOf(a.position), RAdd(YOf(b.position), YOf(b.size)))
    /\ RLess(YOf(b.position), RAdd(YOf(a.position), YOf(a.size)))

\* Mutant of fragments_or_original: an empty fragment list is returned as it is.
fragments_or_original_NoFallback(frags, polys) == frags

\* if fragments.is_empty() { return polygons.clone(); } fragments
fragments_or_original(frags, polys) == IF frags = <<>> THEN polys ELSE frags

\* for piece in &remaining { next_remaining.extend(clipper2_difference(piece, hole)); }
\* diff[<<piece, hole_idx>>] is what the clipper returns for that pair.
RECURSIVE DifferenceAll(_, _, _, _)
DifferenceAll(remaining, hole_idx, diff, k) ==
    IF k > Len(remaining) THEN <<>>
    ELSE clipper2_difference(diff[<<remaining[k], hole_idx>>], remaining[k])
         \o DifferenceAll(remaining, hole_idx, diff, k + 1)

\* The loop over the holes of voronoi.rs subtract_holes, from hole hole_idx on.
RECURSIVE SubtractHolesFrom(_, _, _, _, _, _)
SubtractHolesFrom(fragment_bounds, hole_bounds, diff, hole_idx, remaining, calls) ==
    IF hole_idx > Len(hole_bounds) THEN [remaining |-> remaining, calls |-> calls]
    ELSE IF ~rects_intersect(fragment_bounds, hole_bounds[hole_idx])
         THEN SubtractHolesFrom(fragment_bounds, hole_bounds, diff, hole_idx + 1,
                                remaining, calls)
         ELSE SubtractHolesFrom(fragment_bounds, hole_bounds, diff, hole_idx + 1,
                                DifferenceAll(remaining, hole_idx, diff, 1),
                                calls + Len(remaining))

\* voronoi.rs subtract_holes: the pieces left and the clipper calls made.
subtract_holes(fragment, holes, hole_bounds, diff) ==
    IF holes = <<>> THEN [remaining |-> <<fragment>>, calls |-> 0]
    ELSE SubtractHolesFrom(calculate_bounds(fragment), hole_bounds, diff, 1, <<fragment>>, 0)

\* The body of `for fragment in clipped`, from fragment k on: the valid pieces
\* pushed to `fragments` and the clipper calls made.
RECURSIVE VoronoiPiecesFrom(_, _, _, _, _)
VoronoiPiecesFrom(clipped, holes, hole_bounds, diff, k) ==
    IF k > Len(clipped) THEN [pieces |-> <<>>, calls |-> 0]
    ELSE LET rest == VoronoiPiecesFrom(clipped, holes, hole_bounds, diff, k + 1)
         IN  IF Len(clipped[k]) < 3 THEN rest
             ELSE LET sub == subtract_holes(clipped[k], holes, hole_bounds, diff)
                  IN  [pieces |-> ValidPieces(sub.remaining) \o rest.pieces,
                       calls |-> sub.calls + rest.calls]

\* The guard at the top of voronoi::fracture: TRUE when Array::new() is returned.
voronoi_rejects(polys, seeds) ==
    IF polys = <<>> \/ Len(seeds) < 2 THEN TRUE ELSE Len(polys[1]) < 3

InitVoronoi ==
    /\ rng = None /\ gen = None /\ call = None /\ slices = None /\ trace = None
    /\ grid_width = 0 /\ grid_height = 0 /\ grid_data = <<>>
    /\ segments = <<>> /\ visited = {} /\ contours = <<>> /\ probe = None
    /\ polygons \in PolygonLists
    /\ seed_points \in SeedLists
    /\ line_start = Vec2(0, 0, 1)
    /\ line_end = Vec2(0, 0, 1)
    /\ triangulation = None
    /\ voronoi_cells = <<>>
    /\ cell_idx = 0
    /\ fragments = <<>>
    /\ clip_rects = <<>>
    /\ clip_calls = 0
    /\ pc = "v_start"
    /\ result = <<>>

\* voronoi::fracture, the early returns of an empty array.
VoronoiReject ==
    /\ UNCHANGED <<rng, gen, call, slices, trace>>
    /\ pc = "v_start"
    /\ voronoi_rejects(polygons, seed_points)
    /\ result' = <<>>
    /\ pc' = "done"
    /\ UNCHANGED <<gridVars, contourVars, fractureVars>>

\* voronoi::fracture, steps 1 to 3: triangulate, build the adjacency, build the cells.
VoronoiTriangulate ==
    /\ UNCHANGED <<rng, gen, call, slices, trace>>
    /\ pc = "v_start"
    /\ ~voronoi_rejects(polygons, seed_points)
    /\ \E triangles \in TriangulateOutcomes(Len(seed_points)) :
          /\ triangulation' = Some(triangles)
          /\ IF delaunay(triangles) = None
             THEN /\ result' = polygons
                  /\ pc' = "done"
                  /\ UNCHANGED <<voronoi_cells, cell_idx>>
             ELSE /\ voronoi_cells' =
                        compute_voronoi_cells(seed_points,
                            build_adjacency(Len(seed_points), triangles),
                            calculate_bounds(polygons[1]))
                  /\ cell_idx' = 1
                  /\ pc' = "v_clip"
                  /\ UNCHANGED result
    /\ UNCHANGED <<gridVars, contourVars, polygons, seed_points, line_start, line_end,
                   fragments, clip_rects, clip_calls>>

\* voronoi::fracture, steps 4 and 5 for one cell: clip it to the outer polygon and
\* subtract the holes from every fragment.
VoronoiClipCell ==
    /\ UNCHANGED <<rng, gen, call, slices, trace>>
    /\ pc = "v_clip"
    /\ cell_idx <= Len(voronoi_cells)
    /\ LET holes == CollectHoles(polygons)
           hole_bounds == [i \in 1..Len(holes) |-> calculate_bounds(holes[i])]
       IN  \E raw \in IntersectOutcomes :
           \E diff \in DifferenceOracles(clipper2_intersect(raw), holes) :
              LET cell == voronoi_cells[cell_idx]
                  got == IF Len(cell) < 3 THEN [pieces |-> <<>>, calls |-> 0]
                         ELSE VoronoiPiecesFrom(clipper2_intersect(raw), holes,
                                                hole_bounds, diff, 1)
              IN  /\ fragments' = fragments \o got.pieces
                  /\ clip_calls' = clip_calls + (IF Len(cell) < 3 THEN 0 ELSE 1) + got.calls
    /\ cell_idx' = cell_idx + 1
    /\ UNCHANGED <<gridVars, contourVars, polygons, seed_points, line_start, line_end,
                   triangulation, voronoi_cells, clip_rects, pc, result>>

\* voronoi::fracture, the end: the fragments, or the input when there is none.
VoronoiReturn ==
    /\ UNCHANGED <<rng, gen, call, slices, trace>>
    /\ pc = "v_clip"
    /\ cell_idx > Len(voronoi_cells)
    /\ result' = fragments_or_original(fragments, polygons)
    /\ pc' = "done"
    /\ UNCHANGED <<gridVars, contourVars, fractureVars>>

NextVoronoi == VoronoiReject \/ VoronoiTriangulate \/ VoronoiClipCell \/ VoronoiReturn

SpecVoronoi == InitVoronoi /\ [][NextVoronoi]_vars

(***************************************************************************)
(* fracture/slice.rs: the single-line slice.                               *)
(***************************************************************************)
\* line_segment_intersection.  The inputs are exact, so |cross| < 1e-10 is
\* cross = 0.
line_segment_intersection(a1, a2, b1, b2) ==
    LET d1 == VSub(a2, a1)
        d2 == VSub(b2, b1)
        cross == RSub(RMul(XOf(d1), YOf(d2)), RMul(YOf(d1), XOf(d2)))
        d == VSub(b1, a1)
        t == RDiv(RSub(RMul(XOf(d), YOf(d2)), RMul(YOf(d), XOf(d2))), cross)
        u == RDiv(RSub(RMul(XOf(d), YOf(d1)), RMul(YOf(d), XOf(d1))), cross)
        unit == Rat(1, 1)
    IN  IF cross = Zero THEN None
        ELSE IF /\ ~RLess(t, Zero) /\ ~RLess(unit, t)
                /\ ~RLess(u, Zero) /\ ~RLess(unit, u)
             THEN Some(VAdd(a1, VScale(d1, t)))
             ELSE None

\* find_polygon_intersections: one entry per polygon edge the segment meets.
RECURSIVE IntersectionsFrom(_, _, _, _)
IntersectionsFrom(polygon, a, b, i) ==
    IF i > Len(polygon) THEN <<>>
    ELSE line_segment_intersection(a, b, polygon[i], polygon[(i % Len(polygon)) + 1])
         \o IntersectionsFrom(polygon, a, b, i + 1)

find_polygon_intersections(polygon, a, b) == IntersectionsFrom(polygon, a, b, 1)

\* Mutant of line_misses: one intersection is taken for a crossing.
line_misses_OneIsEnough(intersections) == Len(intersections) < 1

\* if intersections.len() < 2 { return polygons.clone(); }
line_misses(intersections) == Len(intersections) < 2

ISqrt(n) == CHOOSE r \in 0..n : r * r <= n /\ n < (r + 1) * (r + 1)

\* Vector2::normalized for a vector of rational length; the zero vector stays
\* the zero vector.
normalized(v) ==
    IF v[1] = 0 /\ v[2] = 0 THEN Vec2(0, 0, 1)
    ELSE Vec2(v[1], v[2], ISqrt(v[1] * v[1] + v[2] * v[2]))

\* build_half_plane_rect
build_half_plane_rect(a, b, normal, extent) ==
    LET dir == normalized(VSub(b, a))
        extended_start == VSub(a, VScale(dir, extent))
        extended_end == VAdd(b, VScale(dir, extent))
    IN  << extended_start,
           extended_end,
           VAdd(extended_end, VScale(normal, extent)),
           VAdd(extended_start, VScale(normal, extent)) >>

\* The two clip rectangles of slice::fracture: <<left_clip, right_clip>>.
half_plane_rects(outer, a, b) ==
    LET bounds == calculate_bounds(outer)
        margin == RMul(RAdd(XOf(bounds.size), YOf(bounds.size)), Rat(1, 2))
        dir == normalized(VSub(b, a))
        normal == Vec2(0 - dir[2], dir[1], dir[3])
        minus_normal == Vec2(0 - normal[1], 0 - normal[2], normal[3])
    IN  << build_half_plane_rect(a, b, normal, margin),
           build_half_plane_rect(a, b, minus_normal, margin) >>

\* slice.rs subtract_all_holes, from hole hole_idx on: the pieces left and the
\* clipper calls made.
RECURSIVE SubtractAllFrom(_, _, _, _, _)
SubtractAllFrom(holes, diff, hole_idx, remaining, calls) ==
    IF hole_idx > Len(holes) THEN [remaining |-> remaining, calls |-> calls]
    ELSE SubtractAllFrom(holes, diff, hole_idx + 1,
                         DifferenceAll(remaining, hole_idx, diff, 1),
                         calls + Len(remaining))

subtract_all_holes(fragment, holes, diff) == SubtractAllFrom(holes, diff, 1, <<fragment>>, 0)

\* The body of `for fragment in fragments` of slice::fracture, from fragment k on.
RECURSIVE SlicePiecesFrom(_, _, _, _)
SlicePiecesFrom(frags, holes, diff, k) ==
    IF k > Len(frags) THEN [pieces |-> <<>>, calls |-> 0]
    ELSE LET rest == SlicePiecesFrom(frags, holes, diff, k + 1)
         IN  IF Len(frags[k]) < 3 THEN rest
             ELSE LET sub == subtract_all_holes(frags[k], holes, diff)
                  IN  [pieces |-> ValidPieces(sub.remaining) \o rest.pieces,
                       calls |-> sub.calls + rest.calls]

\* The guard at the top of slice::fracture: TRUE when Array::new() is returned.
slice_rejects(polys) == IF polys = <<>> THEN TRUE ELSE Len(polys[1]) < 3

InitSlice ==
    /\ rng = None /\ gen = None /\ call = None /\ slices = None /\ trace = None
    /\ grid_width = 0 /\ grid_height = 0 /\ grid_data = <<>>
    /\ segments = <<>> /\ visited = {} /\ contours = <<>> /\ probe = None
    /\ polygons \in PolygonLists
    /\ seed_points = <<>>
    /\ \E ab \in SliceLines : line_start = ab[1] /\ line_end = ab[2]
    /\ triangulation = None
    /\ voronoi_cells = <<>>
    /\ cell_idx = 0
    /\ fragments = <<>>
    /\ clip_rects = <<>>
    /\ clip_calls = 0
    /\ pc = "s_start"
    /\ result = <<>>

\* slice::fracture, the early returns of an empty array.
SliceReject ==
    /\ UNCHANGED <<rng, gen, call, slices, trace>>
    /\ pc = "s_start"
    /\ slice_rejects(polygons)
    /\ result' = <<>>
    /\ pc' = "done"
    /\ UNCHANGED <<gridVars, contourVars, fractureVars>>

\* slice::fracture, the line does not fully cross the outer polygon.
SliceMiss ==
    /\ UNCHANGED <<rng, gen, call, slices, trace>>
    /\ pc = "s_start"
    /\ ~slice_rejects(polygons)
    /\ line_misses(find_polygon_intersections(polygons[1], line_start, line_end))
    /\ result' = polygons
    /\ pc' = "done"
    /\ UNCHANGED <<gridVars, contourVars, fractureVars>>

\* slice::fracture, the cut: two clip rectangles, two intersections, then the
\* holes are subtracted from every fragment of either side.
SliceCut ==
    /\ UNCHANGED <<rng, gen, call, slices, trace>>
    /\ pc = "s_start"
    /\ ~slice_rejects(polygons)
    /\ ~line_misses(find_polygon_intersections(polygons[1], line_start, line_end))
    /\ clip_rects' = half_plane_rects(polygons[1], line_start, line_end)
    /\ LET holes == CollectHoles(polygons)
       IN  \E raw_left \in IntersectOutcomes, raw_right \in IntersectOutcomes :
           \E diff \in DifferenceOracles(clipper2_intersect(raw_left)
                                           \o clipper2_intersect(raw_right), holes) :
              LET left == SlicePiecesFrom(clipper2_intersect(raw_left), holes, diff, 1)
                  right == SlicePiecesFrom(clipper2_intersect(raw_right), holes, diff, 1)
              IN  /\ fragments' = left.pieces \o right.pieces
                  /\ clip_calls' = clip_calls + 2 + left.calls + right.calls
                  /\ result' = fragments_or_original(left.pieces \o right.pieces, polygons)
    /\ pc' = "done"
    /\ UNCHANGED <<gridVars, contourVars, polygons, seed_points, line_start, line_end,
                   triangulation, voronoi_cells, cell_idx>>

NextSlice == SliceReject \/ SliceMiss \/ SliceCut

SpecSlice == InitSlice /\ [][NextSlice]_vars

(***************************************************************************)
(* slice::fracture on convex polygons without holes, with clipper2's       *)
(* intersect computed: the intersection of a convex subject with a convex  *)
(* clip polygon is the subject cut by the half-plane of every clip edge.   *)
(***************************************************************************)
OuterWide == << Vec2(0, 0, 1), Vec2(4, 0, 1), Vec2(4, 1, 1), Vec2(0, 1, 1) >>
ConvexPool == {OuterSquare, OuterTriangle, OuterWide, OuterDegenerate}

\* (a - o) x (b - o)
VCross(o, a, b) ==
    LET u == VSub(a, o)
        v == VSub(b, o)
    IN  Rat(u[1] * v[2] - u[2] * v[1], u[3] * v[3])

\* The normal of the clip edge from p to q that points to the side of the
\* clip polygon's vertex r.
InwardNormal(p, q, r) ==
    LET e == VSub(q, p)
        left == Vec2(0 - e[2], e[1], e[3])
    IN  IF RLess(Zero, VDot(VSub(r, p), left)) THEN left
        ELSE Vec2(e[2], 0 - e[1], e[3])

RECURSIVE CutByEdgesFrom(_, _, _)
CutByEdgesFrom(subject, clip, i) ==
    IF i > Len(clip) THEN subject
    ELSE LET p == clip[i]
             q == clip[(i % Len(clip)) + 1]
             r == clip[((i + 1) % Len(clip)) + 1]
         IN  CutByEdgesFrom(clip_polygon_to_half_plane(subject, p, InwardNormal(p, q, r)),
                            clip, i + 1)

\* clipper2::intersect(subject, clip, NonZero) for convex subject and clip:
\* one path of positive area, or no path.
convex_intersect(subject, clip) ==
    LET cut == CutByEdgesFrom(subject, clip, 1)
    IN  IF Len(cut) < 3 \/ polygon_area(cut) = Zero THEN <<>> ELSE <<cut>>

InitSliceConvex ==
    /\ rng = None /\ gen = None /\ call = None /\ slices = None /\ trace = None
    /\ grid_width = 0 /\ grid_height = 0 /\ grid_data = <<>>
    /\ segments = <<>> /\ visited = {} /\ contours = <<>> /\ probe = None
    /\ \E outer \in ConvexPool : polygons = <<outer>>
    /\ seed_points = <<>>
    /\ \E ab \in SliceLines : line_start = ab[1] /\ line_end = ab[2]
    /\ triangulation = None
    /\ voronoi_cells = <<>>
    /\ cell_idx = 0
    /\ fragments = <<>>
    /\ clip_rects = <<>>
    /\ clip_calls = 0
    /\ pc = "s_start"
    /\ result = <<>>

\* slice::fracture, the cut of a polygon without holes.
SliceCutConvex ==
    /\ UNCHANGED <<rng, gen, call, slices, trace>>
    /\ pc = "s_start"
    /\ ~slice_rejects(polygons)
    /\ ~line_misses(find_polygon_intersections(polygons[1], line_start, line_end))
    /\ \E rects \in {half_plane_rects(polygons[1], line_start, line_end)} :
          \E pieces \in {ValidPieces(convex_intersect(polygons[1], rects[1]))
                         \o ValidPieces(convex_intersect(polygons[1], rects[2]))} :
              /\ clip_rects' = rects
              /\ fragments' = pieces
              /\ result' = fragments_or_original(pieces, polygons)
    /\ clip_calls' = clip_calls + 2
    /\ pc' = "done"
    /\ UNCHANGED <<gridVars, contourVars, polygons, seed_points, line_start, line_end,
                   triangulation, voronoi_cells, cell_idx>>

NextSliceConvex == SliceReject \/ SliceMiss \/ SliceCutConvex

SpecSliceConvex == InitSliceConvex /\ [][NextSliceConvex]_vars

(***************************************************************************)
(* fracture/seeds.rs Rng and fracture/slice.rs SimpleRng: xorshift on a    *)
(* u64 state.  A word is the sequence of its bits, bit i (0 = least        *)
(* significant) at index i + 1; shifts drop the bits that leave the word.  *)
(***************************************************************************)
WordBits == 64
BitPositions == 1..WordBits
MaxDraws == 3
SeedValues == (0 - 2)..2

RECURSIVE Pow2(_)
Pow2(k) == IF k = 0 THEN 1 ELSE 2 * Pow2(k - 1)

Shl(w, k) == [p \in BitPositions |-> IF p > k THEN w[p - k] ELSE 0]
Shr(w, k) == [p \in BitPositions |-> IF p + k <= WordBits THEN w[p + k] ELSE 0]
Xor(a, b) == [p \in BitPositions |-> (a[p] + b[p]) % 2]

\* A concrete word: every bit evaluated once.
Word(w) == w \o <<>>

\* `seed as u64` for an i64 of small magnitude: two's complement.
AsU64(seed) ==
    Word([p \in BitPositions |->
            IF p <= 30 THEN ((seed + Pow2(30)) \div Pow2(p - 1)) % 2
            ELSE IF seed < 0 THEN 1 ELSE 0])

\* 0xDEAD_BEEF_CAFE_BABE, most significant hex digit first.
DeadBeefDigits == <<13, 14, 10, 13, 11, 14, 14, 15, 12, 10, 15, 14, 11, 10, 11, 14>>
DEAD_BEEF_CAFE_BABE ==
    Word([p \in BitPositions |->
            (DeadBeefDigits[16 - ((p - 1) \div 4)] \div Pow2((p - 1) % 4)) % 2])

\* seeds.rs Rng::new
Rng_new(seed) == IF seed = 0 THEN DEAD_BEEF_CAFE_BABE ELSE AsU64(seed)

\* One xorshift round: x ^= x << a; x ^= x >> b; x ^= x << c, each step on a
\* concrete word.
XorShl(w, k) == Word(Xor(w, Shl(w, k)))
XorShr(w, k) == Word(Xor(w, Shr(w, k)))

\* seeds.rs Rng::next_u64
next_u64(state) == XorShl(XorShr(XorShl(state, 13), 7), 17)

\* The integer of bits lo..hi of a word (at most 24 bits).
RECURSIVE BitsValue(_, _, _)
BitsValue(w, lo, hi) ==
    IF hi < lo THEN 0 ELSE w[lo + 1] + 2 * BitsValue(w, lo + 1, hi)

\* seeds.rs Rng::randf on the state after next_u64: (x >> 40) as f32 / 2^24,
\* exact in f32 as the numerator has at most 24 bits.
Rng_randf(state) == <<BitsValue(state, 40, WordBits - 1), Pow2(24)>>

\* slice.rs SimpleRng: one round of its xorshift.
simple_round(state) == XorShl(XorShr(XorShl(state, 13), 17), 5)

\* slice.rs SimpleRng::new: |seed| (1 for seed 0), then four warm-up rounds.
SimpleRng_new(seed) ==
    simple_round(simple_round(simple_round(simple_round(
        AsU64(IF seed = 0 THEN 1 ELSE Abs(seed))))))

\* The position of the highest set bit at or below hi, -1 for the zero word.
RECURSIVE HighBit(_, _)
HighBit(w, hi) ==
    IF hi < 0 THEN 0 - 1 ELSE IF w[hi + 1] = 1 THEN hi ELSE HighBit(w, hi - 1)

\* slice.rs SimpleRng::randf on the state after the round: state as f32 /
\* u64::MAX as f32, given by the exponent and the 24 leading bits of the state
\* (the rounding of the dropped bits is left out).
SimpleRng_randf(state) ==
    LET top == HighBit(state, WordBits - 1)
    IN  IF top < 0 THEN <<0 - 1, 0>>
        ELSE <<top, BitsValue(state, IF top >= 23 THEN top - 23 ELSE 0, top)>>

\* Mutant of state_cell: both runs draw from one shared generator.
state_cell_Shared(run) == 1

\* Every run owns the generator it built with new(seed).
state_cell(run) == run

RngKinds == {"Rng", "SimpleRng"}
rng_new(kind, seed) == IF kind = "Rng" THEN Rng_new(seed) ELSE SimpleRng_new(seed)
rng_advance(kind, state) == IF kind = "Rng" THEN next_u64(state) ELSE simple_round(state)
rng_randf(kind, state) == IF kind = "Rng" THEN Rng_randf(state) ELSE SimpleRng_randf(state)

OtherIdle ==
    /\ grid_width = 0 /\ grid_height = 0 /\ grid_data = <<>>
    /\ segments = <<>> /\ visited = {} /\ contours = <<>> /\ probe = None
    /\ FractureIdle
    /\ result = <<>>

InitRng ==
    /\ OtherIdle
    /\ gen = None /\ call = None /\ slices = None /\ trace = None
    /\ pc = "rng"
    /\ \E kind \in RngKinds, seed \in SeedValues :
          rng = [kind |-> kind, seed |-> seed,
                 state |-> <<rng_new(kind, seed), rng_new(kind, seed)>>,
                 out |-> << <<>>, <<>> >>]

\* One call of randf by one of the two runs.
Draw(run) ==
    /\ pc = "rng"
    /\ Len(rng.out[run]) < MaxDraws
    /\ LET cell == state_cell(run)
           next == rng_advance(rng.kind, rng.state[cell])
       IN  rng' = [rng EXCEPT !.state[cell] = next,
                              !.out[run] = Append(@, rng_randf(rng.kind, next))]
    /\ UNCHANGED <<gridVars, contourVars, fractureVars, pc, result, gen, call, slices, trace>>

NextRng == \E run \in 1..2 : Draw(run)

SpecRng == InitRng /\ [][NextRng]_vars

(***************************************************************************)
(* The two generators on i64 seeds given as words in two's complement, so  *)
(* that the ends of the range are among the seeds.                         *)
(***************************************************************************)
ZeroWord == Word([p \in BitPositions |-> 0])
I64_MIN == Word([p \in BitPositions |-> IF p = WordBits THEN 1 ELSE 0])
I64_MAX == Word([p \in BitPositions |-> IF p = WordBits THEN 0 ELSE 1])
OneBit(k) == Word([p \in BitPositions |-> IF p = k + 1 THEN 1 ELSE 0])
SeedWords ==
    {AsU64(s) : s \in SeedValues} \cup {I64_MIN, I64_MAX}
        \cup {OneBit(k) : k \in {13, 31, 47, 62}}

\* -w modulo 2^64: the lowest set bit and the zeros below it stay, the bits
\* above it are inverted.
wrapping_neg(w) ==
    Word([p \in BitPositions |->
            IF \A q \in 1..(p - 1) : w[q] = 0 THEN w[p] ELSE 1 - w[p]])

\* i64::abs.  -i64::MIN is not an i64: a build with overflow checks (the dev
\* profile) panics, a build without them (the release profile) returns
\* i64::MIN.  None stands for the panic.
abs_outcomes(w) ==
    IF w[WordBits] = 0 THEN {Some(w)}
    ELSE IF w = I64_MIN THEN {None, Some(I64_MIN)}
    ELSE {Some(wrapping_neg(w))}

\* Rng::new and SimpleRng::new on a seed word: the states the build can
\* construct, None for a panic.
new_outcomes(kind, w) ==
    IF kind = "Rng" THEN {Some(IF w = ZeroWord THEN DEAD_BEEF_CAFE_BABE ELSE w)}
    ELSE {IF a = None THEN None
          ELSE Some(simple_round(simple_round(simple_round(simple_round(a[1]))))) :
             a \in IF w = ZeroWord THEN {Some(OneBit(0))} ELSE abs_outcomes(w)}

InitSeedWords ==
    /\ OtherIdle
    /\ gen = None /\ call = None /\ slices = None /\ trace = None
    /\ pc = "w_new"
    /\ \E kind \in RngKinds, seed \in SeedWords :
          rng = [kind |-> kind, seed |-> seed, state |-> None, steps |-> 0]

SeedWordsFrame ==
    UNCHANGED <<gridVars, contourVars, fractureVars, result, gen, call, slices, trace>>

\* new(seed) returns a generator.
WordNew ==
    /\ pc = "w_new"
    /\ \E made \in new_outcomes(rng.kind, rng.seed) \ {None} :
          rng' = [rng EXCEPT !.state = made[1]]
    /\ pc' = "w_ready"
    /\ SeedWordsFrame

\* new(seed) panics.
WordNewPanics ==
    /\ pc = "w_new"
    /\ None \in new_outcomes(rng.kind, rng.seed)
    /\ pc' = "w_panic"
    /\ UNCHANGED rng
    /\ SeedWordsFrame

\* One step of the generator: next_u64, or the round of SimpleRng::randf.
WordStep ==
    /\ pc = "w_ready"
    /\ rng.steps < MaxDraws
    /\ rng' = [rng EXCEPT !.state = rng_advance(rng.kind, rng.state), !.steps = @ + 1]
    /\ UNCHANGED pc
    /\ SeedWordsFrame

NextSeedWords == WordNew \/ WordNewPanics \/ WordStep

SpecSeedWords == InitSeedWords /\ [][NextSeedWords]_vars

(***************************************************************************)
(* fracture/geometry.rs and fracture/seeds.rs: the five seed generators.   *)
(* The draws of the random generator are inputs taken from small sets, and *)
(* (cos a, sin a) is any of a few unit vectors with rational coordinates.  *)
(***************************************************************************)
\* point_in_polygon: ray casting, edge by edge.
RECURSIVE CrossingsFrom(_, _, _, _)
CrossingsFrom(point, polygon, i, inside) ==
    IF i > Len(polygon) THEN inside
    ELSE LET p1 == polygon[i]
             p2 == polygon[(i % Len(polygon)) + 1]
             xinters == RAdd(RDiv(RMul(RSub(YOf(point), YOf(p1)), RSub(XOf(p2), XOf(p1))),
                                  RSub(YOf(p2), YOf(p1))),
                             XOf(p1))
             toggles ==
                 /\ RLess(RMin(YOf(p1), YOf(p2)), YOf(point))
                 /\ ~RLess(RMax(YOf(p1), YOf(p2)), YOf(point))
                 /\ ~RLess(RMax(XOf(p1), XOf(p2)), XOf(point))
                 /\ YOf(p1) # YOf(p2)
                 /\ (XOf(p1) = XOf(p2) \/ ~RLess(xinters, XOf(point)))
         IN  CrossingsFrom(point, polygon, i + 1, IF toggles THEN ~inside ELSE inside)

\* Mutant of point_in_polygon: every point counts as inside.
point_in_polygon_Always(point, polygon) == TRUE

point_in_polygon(point, polygon) ==
    IF Len(polygon) < 3 THEN FALSE ELSE CrossingsFrom(point, polygon, 1, FALSE)

length_squared(v) == VDot(v, v)

\* Mutant of is_far_enough: only the last accepted point is looked at.
is_far_enough_LastOnly(point, existing, min_distance) ==
    existing = <<>> \/
        ~RLess(length_squared(VSub(point, existing[Len(existing)])),
               RMul(min_distance, min_distance))

\* is_far_enough
is_far_enough(point, existing, min_distance) ==
    \A k \in 1..Len(existing) :
        ~RLess(length_squared(VSub(point, existing[k])), RMul(min_distance, min_distance))

\* grow_rect: the size is clamped at 0.
grow_rect(rect, amount) ==
    [position |-> VSub(rect.position, Vector2(amount, amount)),
     size |-> Vector2(RMax(RAdd(XOf(rect.size), RMul(Rat(2, 1), amount)), Zero),
                      RMax(RAdd(YOf(rect.size), RMul(Rat(2, 1), amount)), Zero))]

MaxFragments == 2
AttemptsPerFragment == 10
\* rows and cols of generate_grid
GridSides == {1, 2}

\* randf(): values of [0, 1).
RandValues == {Rat(0, 1), Rat(3, 4)}
\* randf_range(min, max)
randf_range(u, min, max) == RAdd(min, RMul(u, RSub(max, min)))

GenPolygons == {OuterSquare, OuterTriangle, OuterDegenerate}
MinCellDistances == {Rat(0, 1), Rat(1, 2)}
EdgePaddings == {Rat(0, 1), Rat(1, 1), Rat(2, 1)}

padded_of(g) == grow_rect(calculate_bounds(g.polygon), RSub(Zero, g.edge_padding))

\* padded.size.x <= 0.0 || padded.size.y <= 0.0
padded_is_empty(g) ==
    \/ ~RLess(Zero, XOf(padded_of(g).size))
    \/ ~RLess(Zero, YOf(padded_of(g).size))

\* min_dist of generate_random, generate_grid and generate_poisson
padded_min_dist(g) ==
    RMul(RMin(XOf(padded_of(g).size), YOf(padded_of(g).size)), g.min_cell_distance)

\* if point_in_polygon(candidate, polygon) && is_far_enough(candidate, &points, min_dist)
\*     { points.push(candidate); }
push_if_valid(points, candidate, polygon, min_dist) ==
    IF point_in_polygon(candidate, polygon) /\ is_far_enough(candidate, points, min_dist)
    THEN Append(points, candidate)
    ELSE points

RandomInputs ==
    {[kind |-> "random", polygon |-> poly, fragment_count |-> n,
      min_cell_distance |-> mcd, edge_padding |-> pad] :
        poly \in GenPolygons, n \in 1..MaxFragments,
        mcd \in MinCellDistances, pad \in EdgePaddings}

GridInputs ==
    {[kind |-> "grid", polygon |-> poly, rows |-> r, cols |-> c, jitter |-> jit,
      min_cell_distance |-> mcd, edge_padding |-> pad] :
        poly \in GenPolygons, r \in GridSides, c \in GridSides,
        jit \in {Rat(0, 1), Rat(1, 1)},
        mcd \in MinCellDistances, pad \in EdgePaddings}

\* generate_random, generate_grid, generate_poisson: the padded box is empty.
GenEmptyBox ==
    /\ pc = "g_start"
    /\ gen.in.kind \in {"random", "grid", "poisson"}
    /\ padded_is_empty(gen.in)
    /\ result' = <<>>
    /\ pc' = "done"
    /\ UNCHANGED <<gridVars, contourVars, fractureVars, rng, gen, call, slices, trace>>

\* The generator passes its entry checks.
GenEnter ==
    /\ pc = "g_start"
    /\ gen.in.kind \in {"random", "grid", "poisson"} => ~padded_is_empty(gen.in)
    /\ pc' = (CASE gen.in.kind = "spiderweb" -> "g_center"
                [] gen.in.kind = "poisson" -> "g_first"
                [] OTHER -> "g_loop")
    /\ UNCHANGED <<gridVars, contourVars, fractureVars, rng, gen, result, call, slices, trace>>

\* generate_random: one pass of `for _ in 0..max_attempts`.
RandomAttempt ==
    /\ pc = "g_loop" /\ gen.in.kind = "random"
    /\ gen.i < gen.in.fragment_count * AttemptsPerFragment
    /\ Len(gen.points) < gen.in.fragment_count
    /\ \E u \in RandValues, v \in RandValues :
          LET padded == padded_of(gen.in)
              candidate ==
                  Vector2(randf_range(u, XOf(padded.position),
                                      RAdd(XOf(padded.position), XOf(padded.size))),
                          randf_range(v, YOf(padded.position),
                                      RAdd(YOf(padded.position), YOf(padded.size))))
          IN  gen' = [gen EXCEPT !.i = @ + 1,
                                 !.points = push_if_valid(@, candidate, gen.in.polygon,
                                                          padded_min_dist(gen.in))]
    /\ UNCHANGED <<gridVars, contourVars, fractureVars, rng, pc, result, call, slices, trace>>

\* generate_random: the loop ends, by exhaustion or by the break.
RandomReturn ==
    /\ pc = "g_loop" /\ gen.in.kind = "random"
    /\ \/ gen.i >= gen.in.fragment_count * AttemptsPerFragment
       \/ Len(gen.points) >= gen.in.fragment_count
    /\ result' = gen.points
    /\ pc' = "done"
    /\ UNCHANGED <<gridVars, contourVars, fractureVars, rng, gen, call, slices, trace>>

\* generate_grid: one cell of `for y in 0..rows { for x in 0..cols`; gen.i
\* counts the cells, row by row.
GridCell ==
    /\ pc = "g_loop" /\ gen.in.kind = "grid"
    /\ gen.i < gen.in.rows * gen.in.cols
    /\ \E u \in RandValues, v \in RandValues :
          LET padded == padded_of(gen.in)
              x == gen.i % gen.in.cols
              y == gen.i \div gen.in.cols
              half == Rat(1, 2)
              cell_x == RDiv(XOf(padded.size), Rat(gen.in.cols, 1))
              cell_y == RDiv(YOf(padded.size), Rat(gen.in.rows, 1))
              jitter_x == RMul(RMul(randf_range(u, RSub(Zero, half), half), cell_x),
                               gen.in.jitter)
              jitter_y == RMul(RMul(randf_range(v, RSub(Zero, half), half), cell_y),
                               gen.in.jitter)
              candidate ==
                  Vector2(RAdd(RAdd(XOf(padded.position),
                                    RMul(RAdd(Rat(x, 1), half), cell_x)), jitter_x),
                          RAdd(RAdd(YOf(padded.position),
                                    RMul(RAdd(Rat(y, 1), half), cell_y)), jitter_y))
          IN  gen' = [gen EXCEPT !.i = @ + 1,
                                 !.points = push_if_valid(@, candidate, gen.in.polygon,
                                                          padded_min_dist(gen.in))]
    /\ UNCHANGED <<gridVars, contourVars, fractureVars, rng, pc, result, call, slices, trace>>

\* generate_grid: both loops are over.
GridReturn ==
    /\ pc = "g_loop" /\ gen.in.kind = "grid"
    /\ gen.i >= gen.in.rows * gen.in.cols
    /\ result' = gen.points
    /\ pc' = "done"
    /\ UNCHANGED <<gridVars, contourVars, fractureVars, rng, gen, call, slices, trace>>

\* Vector2::new(angle.cos(), angle.sin())
UnitDirs == {Vec2(1, 0, 1), Vec2(0, 1, 1), Vec2(0 - 1, 0, 1), Vec2(0, 0 - 1, 1)}
\* radius_var: the draw scaled by max_radius / ring_count
RadiusVars == {Rat(0, 1), Rat(1, 2)}

RingInputs(kind) ==
    {[kind |-> kind, polygon |-> poly, origin |-> o, ring_count |-> rc,
      ring_size |-> Rat(1, 1), points_per_ring |-> 3, min_cell_distance |-> mcd] :
        poly \in GenPolygons, o \in {Vec2(0, 0, 1), Vec2(1, 1, 1)}, rc \in 1..2,
        mcd \in {Rat(1, 4), Rat(1, 2)}}

\* if origin == Vector2::ZERO { bounds.position + bounds.size * 0.5 } else { origin }
ring_center(g) ==
    IF g.origin = Vec2(0, 0, 1)
    THEN VAdd(calculate_bounds(g.polygon).position,
              VScale(calculate_bounds(g.polygon).size, Rat(1, 2)))
    ELSE g.origin

\* min_dist of generate_radial and generate_spiderweb: no padding
bounds_min_dist(g) ==
    RMul(RMin(XOf(calculate_bounds(g.polygon).size), YOf(calculate_bounds(g.polygon).size)),
         g.min_cell_distance)

\* (points_per_ring as f32 * ring_number / ring_count as f32).round() as i32, .max(3)
seeds_in_ring(g, ring_number) ==
    LET rounded == (2 * g.points_per_ring * ring_number + g.ring_count) \div (2 * g.ring_count)
    IN  IF rounded < 3 THEN 3 ELSE rounded

\* generate_radial: one seed of one ring; gen.i is ring_idx, gen.j is i.
RadialSeed ==
    /\ pc = "g_loop" /\ gen.in.kind = "radial"
    /\ gen.i < gen.in.ring_count
    /\ \E dir \in UnitDirs, radius_var \in RadiusVars :
          LET radius == RAdd(RMul(Rat(gen.i + 1, 1), gen.in.ring_size), radius_var)
              candidate == VAdd(ring_center(gen.in), VScale(dir, radius))
              last == gen.j + 1 >= seeds_in_ring(gen.in, gen.i + 1)
          IN  gen' = [gen EXCEPT !.i = IF last THEN @ + 1 ELSE @,
                                 !.j = IF last THEN 0 ELSE @ + 1,
                                 !.points = push_if_valid(@, candidate, gen.in.polygon,
                                                          bounds_min_dist(gen.in))]
    /\ UNCHANGED <<gridVars, contourVars, fractureVars, rng, pc, result, call, slices, trace>>

\* generate_spiderweb: if point_in_polygon(center, polygon) { points.push(center); }
SpiderwebCenter ==
    /\ pc = "g_center"
    /\ gen' = [gen EXCEPT !.points =
                  IF point_in_polygon(ring_center(gen.in), gen.in.polygon)
                  THEN Append(@, ring_center(gen.in)) ELSE @]
    /\ pc' = "g_loop"
    /\ UNCHANGED <<gridVars, contourVars, fractureVars, rng, result, call, slices, trace>>

\* generate_spiderweb: one ring crossing of one ray; gen.i is ray_idx, gen.j
\* is ring_idx - 1.
SpiderwebSeed ==
    /\ pc = "g_loop" /\ gen.in.kind = "spiderweb"
    /\ gen.i < gen.in.points_per_ring
    /\ \E dir \in UnitDirs, radius_var \in RadiusVars :
          LET final_radius == RAdd(RMul(Rat(gen.j + 1, 1), gen.in.ring_size), radius_var)
              candidate == VAdd(ring_center(gen.in), VScale(dir, final_radius))
              last == gen.j + 1 >= gen.in.ring_count
          IN  gen' = [gen EXCEPT !.i = IF last THEN @ + 1 ELSE @,
                                 !.j = IF last THEN 0 ELSE @ + 1,
                                 !.points = push_if_valid(@, candidate, gen.in.polygon,
                                                          bounds_min_dist(gen.in))]
    /\ UNCHANGED <<gridVars, contourVars, fractureVars, rng, pc, result, call, slices, trace>>

\* generate_radial, generate_spiderweb: the loops are over.
RingsReturn ==
    /\ pc = "g_loop"
    /\ \/ gen.in.kind = "radial" /\ gen.i >= gen.in.ring_count
       \/ gen.in.kind = "spiderweb" /\ gen.i >= gen.in.points_per_ring
    /\ result' = gen.points
    /\ pc' = "done"
    /\ UNCHANGED <<gridVars, contourVars, fractureVars, rng, gen, call, slices, trace>>

PoissonInputs ==
    {[kind |-> "poisson", polygon |-> poly, fragment_count |-> n,
      min_cell_distance |-> mcd, edge_padding |-> pad, poisson_attempts |-> pa] :
        poly \in GenPolygons, n \in 1..MaxFragments,
        mcd \in {Rat(1, 4), Rat(1, 2)}, pad \in EdgePaddings, pa \in 1..2}

\* generate_poisson: the first point, taken without a distance check.
PoissonFirst ==
    /\ pc = "g_first"
    /\ \E u \in RandValues, v \in RandValues :
          LET padded == padded_of(gen.in)
              first ==
                  Vector2(randf_range(u, XOf(padded.position),
                                      RAdd(XOf(padded.position), XOf(padded.size))),
                          randf_range(v, YOf(padded.position),
                                      RAdd(YOf(padded.position), YOf(padded.size))))
          IN  gen' = IF point_in_polygon(first, gen.in.polygon)
                     THEN [gen EXCEPT !.points = Append(@, first),
                                      !.active_list = Append(@, first)]
                     ELSE gen
    /\ pc' = "g_pick"
    /\ UNCHANGED <<gridVars, contourVars, fractureVars, rng, result, call, slices, trace>>

\* The condition of generate_poisson's while loop.
poisson_continues ==
    /\ gen.active_list # <<>>
    /\ Len(gen.points) < gen.in.fragment_count
    /\ gen.total_attempts < gen.in.fragment_count * gen.in.poisson_attempts

\* generate_poisson: let idx = rng.randi_range(active_list.len());
PoissonPick ==
    /\ pc = "g_pick"
    /\ poisson_continues
    /\ \E idx \in 0..(Len(gen.active_list) - 1) :
          gen' = [gen EXCEPT !.idx = idx, !.j = 0]
    /\ pc' = "g_try"
    /\ UNCHANGED <<gridVars, contourVars, fractureVars, rng, result, call, slices, trace>>

\* generate_poisson: one pass of `for _ in 0..poisson_attempts`.
PoissonTry ==
    /\ pc = "g_try"
    /\ gen.j < gen.in.poisson_attempts
    /\ \E dir \in UnitDirs, u \in RandValues :
          LET padded == padded_of(gen.in)
              min_dist == padded_min_dist(gen.in)
              point == gen.active_list[gen.idx + 1]
              radius == RMul(min_dist, RAdd(Rat(1, 1), u))
              candidate == VAdd(point, VScale(dir, radius))
              in_bounds ==
                  /\ ~RLess(XOf(candidate), XOf(padded.position))
                  /\ ~RLess(RAdd(XOf(padded.position), XOf(padded.size)), XOf(candidate))
                  /\ ~RLess(YOf(candidate), YOf(padded.position))
                  /\ ~RLess(RAdd(YOf(padded.position), YOf(padded.size)), YOf(candidate))
              accepted ==
                  /\ in_bounds
                  /\ point_in_polygon(candidate, gen.in.polygon)
                  /\ is_far_enough(candidate, gen.points, min_dist)
          IN  IF accepted
              THEN /\ gen' = [gen EXCEPT !.total_attempts = @ + 1,
                                         !.points = Append(@, candidate),
                                         !.active_list = Append(@, candidate)]
                   /\ pc' = "g_pick"
              ELSE /\ gen' = [gen EXCEPT !.total_attempts = @ + 1, !.j = @ + 1]
                   /\ pc' = "g_try"
    /\ UNCHANGED <<gridVars, contourVars, fractureVars, rng, result, call, slices, trace>>

\* Vec::swap_remove
swap_remove(list, idx) ==
    [k \in 1..(Len(list) - 1) |-> IF k = idx + 1 THEN list[Len(list)] ELSE list[k]]

\* generate_poisson: if !found_valid { active_list.swap_remove(idx); }
PoissonGiveUp ==
    /\ pc = "g_try"
    /\ gen.j >= gen.in.poisson_attempts
    /\ gen' = [gen EXCEPT !.active_list = swap_remove(@, gen.idx)]
    /\ pc' = "g_pick"
    /\ UNCHANGED <<gridVars, contourVars, fractureVars, rng, result, call, slices, trace>>

\* generate_poisson: the while loop is over.
PoissonReturn ==
    /\ pc = "g_pick"
    /\ ~poisson_continues
    /\ result' = gen.points
    /\ pc' = "done"
    /\ UNCHANGED <<gridVars, contourVars, fractureVars, rng, gen, call, slices, trace>>

GenInputs ==
    RandomInputs \cup GridInputs \cup RingInputs("radial") \cup RingInputs("spiderweb")
        \cup PoissonInputs

InitSeeds ==
    /\ OtherIdle
    /\ rng = None /\ call = None /\ slices = None /\ trace = None
    /\ pc = "g_start"
    /\ \E inputs \in GenInputs :
          gen = [in |-> inputs, points |-> <<>>, active_list |-> <<>>, i |-> 0, j |-> 0,
                 idx |-> 0, total_attempts |-> 0]

NextSeeds ==
    \/ GenEmptyBox \/ GenEnter
    \/ RandomAttempt \/ RandomReturn
    \/ GridCell \/ GridReturn
    \/ RadialSeed \/ SpiderwebCenter \/ SpiderwebSeed \/ RingsReturn
    \/ PoissonFirst \/ PoissonPick \/ PoissonTry \/ PoissonGiveUp \/ PoissonReturn

SpecSeeds == InitSeeds /\ [][NextSeeds]_vars

(***************************************************************************)
(* generate_poisson on its own, with larger fragment counts.               *)
(***************************************************************************)
\* The largest fragment_count handed to generate_poisson on its own.
MaxPoissonFragments == 4

PoissonBudgetInputs ==
    {[kind |-> "poisson", polygon |-> OuterSquare, fragment_count |-> n,
      min_cell_distance |-> Rat(1, 2), edge_padding |-> Rat(0, 1), poisson_attempts |-> pa] :
        n \in 1..MaxPoissonFragments, pa \in 1..2}

InitPoisson ==
    /\ OtherIdle
    /\ rng = None /\ call = None /\ slices = None /\ trace = None
    /\ pc = "g_start"
    /\ \E inputs \in PoissonBudgetInputs :
          gen = [in |-> inputs, points |-> <<>>, active_list |-> <<>>, i |-> 0, j |-> 0,
                 idx |-> 0, total_attempts |-> 0]

NextPoisson ==
    \/ GenEnter
    \/ PoissonFirst \/ PoissonPick \/ PoissonTry \/ PoissonGiveUp \/ PoissonReturn

SpecPoisson == InitPoisson /\ [][NextPoisson]_vars

(***************************************************************************)
(* Calls of the pure functions: polygon_area, clip_polygon_to_half_plane   *)
(* and the SEGMENT_LOOKUP table.                                           *)
(***************************************************************************)
\* The largest number of points of a polygon handed to a pure function.
MaxVertices == 4

CallPoints ==
    {Vec2(0, 0, 1), Vec2(2, 0, 1), Vec2(2, 1, 1), Vec2(0, 3, 1), Vec2(0 - 1, 1, 1)}
CallPolygons == SeqsUpTo(CallPoints, MaxVertices)
PlanePoints == {Vec2(0 - 1, 0, 1), Vec2(1, 1, 1), Vec2(3, 3, 1)}
PlaneNormals == {Vec2(1, 0, 1), Vec2(0, 0 - 1, 1), Vec2(1, 1, 1)}

\* The point list started one place later, and the point list backwards.
rotate_left(list) == IF list = <<>> THEN list ELSE Tail(list) \o <<Head(list)>>
reversed(list) == [i \in 1..Len(list) |-> list[Len(list) + 1 - i]]

AreaCalls ==
    {[fn |-> "polygon_area", polygon |-> poly, shift |-> 0, backwards |-> FALSE,
      first |-> None, out |-> None] : poly \in CallPolygons}
ClipCalls ==
    {[fn |-> "clip_polygon_to_half_plane", polygon |-> poly, plane_point |-> pp,
      plane_normal |-> pn, out |-> None] :
        poly \in CallPolygons, pp \in PlanePoints, pn \in PlaneNormals}
LookupCalls ==
    {[fn |-> "SEGMENT_LOOKUP", tl |-> tl, tr |-> tr, br |-> br, bl |-> bl, out |-> None] :
        tl \in BOOLEAN, tr \in BOOLEAN, br \in BOOLEAN, bl \in BOOLEAN}

\* A hole whose bounding box meets no piece of the pool.
HoleFar == << Vec2(7, 7, 1), Vec2(8, 7, 1), Vec2(7, 8, 1) >>

IntersectCalls ==
    {[fn |-> "clipper2_intersect", raw |-> raw, out |-> None] : raw \in IntersectOutcomes}
DifferenceCallRecords ==
    {[fn |-> "clipper2_difference", subject |-> s, raw |-> raw, out |-> None] :
        s \in PiecePool, raw \in DifferenceOutcomes}
\* subtract_holes of voronoi.rs and subtract_all_holes of slice.rs, on a
\* fragment and holes of at least three points each, as their callers pass.
SubtractCalls ==
    UNION {{[fn |-> f, fragment |-> PieceTriangle, holes |-> hs, diff |-> d, out |-> None] :
                d \in [DifferenceCalls(hs) -> DifferenceOutcomes]} :
            f \in {"subtract_holes", "subtract_all_holes"},
            hs \in SeqsUpTo({HoleTriangle, HoleFar}, MaxHoles)}

\* subtract_holes of voronoi.rs on a square fragment and up to MaxCullHoles
\* holes: one inside the square, one far from it, one whose bounding box
\* touches the square's from outside; the clipper returns pieces of the
\* square.
MaxCullHoles == 2
PieceCorner == << Vec2(3, 3, 1), Vec2(4, 3, 1), Vec2(4, 4, 1) >>
HoleTouching == << Vec2(4, 0, 1), Vec2(6, 0, 1), Vec2(4, 2, 1) >>
CullOutcomes == {ClipOk(<<PieceTriangle, PieceCorner>>), ClipOk(<<PieceCorner>>)}
CullCalls ==
    UNION {{[fn |-> "subtract_holes", fragment |-> OuterSquare, holes |-> hs, diff |-> d,
             out |-> None] :
                d \in [{OuterSquare, PieceTriangle, PieceCorner} \X (1..Len(hs))
                          -> CullOutcomes]} :
            hs \in SeqsUpTo({HoleTriangle, HoleFar, HoleTouching}, MaxCullHoles)}

InitCalls ==
    /\ OtherIdle
    /\ rng = None /\ gen = None /\ slices = None /\ trace = None
    /\ pc = "call"
    /\ call \in AreaCalls \cup ClipCalls \cup LookupCalls \cup IntersectCalls
                 \cup DifferenceCallRecords \cup SubtractCalls \cup CullCalls

CallsFrame == UNCHANGED <<gridVars, contourVars, fractureVars, result, rng, gen, slices, trace>>

\* polygon_area(polygon)
CallArea ==
    /\ pc = "call" /\ call.fn = "polygon_area"
    /\ call' = [call EXCEPT !.out = polygon_area(call.polygon),
                            !.first = polygon_area(call.polygon)]
    /\ pc' = "called"
    /\ CallsFrame

\* polygon_area of the same points started one place later.
CallAreaRotated ==
    /\ pc = "called" /\ call.fn = "polygon_area"
    /\ call.shift < Len(call.polygon)
    /\ call' = [call EXCEPT !.polygon = rotate_left(@), !.shift = @ + 1,
                            !.out = polygon_area(rotate_left(call.polygon))]
    /\ UNCHANGED pc
    /\ CallsFrame

\* polygon_area of the same points backwards.
CallAreaReversed ==
    /\ pc = "called" /\ call.fn = "polygon_area"
    /\ call' = [call EXCEPT !.polygon = reversed(@), !.backwards = ~@,
                            !.out = polygon_area(reversed(call.polygon))]
    /\ UNCHANGED pc
    /\ CallsFrame

\* clip_polygon_to_half_plane(polygon, plane_point, plane_normal)
CallClip ==
    /\ pc = "call" /\ call.fn = "clip_polygon_to_half_plane"
    /\ call' = [call EXCEPT !.out = clip_polygon_to_half_plane(call.polygon, call.plane_point,
                                                               call.plane_normal)]
    /\ pc' = "called"
    /\ CallsFrame

\* let cell_segments = SEGMENT_LOOKUP[config as usize];
CallLookup ==
    /\ pc = "call" /\ call.fn = "SEGMENT_LOOKUP"
    /\ call' = [call EXCEPT !.out = SEGMENT_LOOKUP[config_of(call.tl, call.tr, call.br,
                                                             call.bl) + 1]]
    /\ pc' = "called"
    /\ CallsFrame

\* clipper2_intersect, given what clipper2's intersect returned
CallIntersect ==
    /\ pc = "call" /\ call.fn = "clipper2_intersect"
    /\ call' = [call EXCEPT !.out = clipper2_intersect(call.raw)]
    /\ pc' = "called"
    /\ CallsFrame

\* clipper2_difference, given what clipper2's difference returned
CallDifference ==
    /\ pc = "call" /\ call.fn = "clipper2_difference"
    /\ call' = [call EXCEPT !.out = clipper2_difference(call.raw, call.subject)]
    /\ pc' = "called"
    /\ CallsFrame

\* `remaining` after the first k holes: the loop over the holes is
\* sequential, so this is the function applied to the first k holes.
remaining_after(c, k) ==
    LET hs == SubSeq(c.holes, 1, k)
    IN  IF c.fn = "subtract_holes"
        THEN subtract_holes(c.fragment, hs, [i \in 1..k |-> calculate_bounds(hs[i])],
                            c.diff).remaining
        ELSE subtract_all_holes(c.fragment, hs, c.diff).remaining

\* subtract_holes / subtract_all_holes: out[k + 1] is `remaining` after k
\* holes, the last one is the value returned.
CallSubtract ==
    /\ pc = "call" /\ call.fn \in {"subtract_holes", "subtract_all_holes"}
    /\ call' = [call EXCEPT !.out = [k \in 1..(Len(call.holes) + 1) |->
                                        remaining_after(call, k - 1)]]
    /\ pc' = "called"
    /\ CallsFrame

NextCalls ==
    \/ CallArea \/ CallAreaRotated \/ CallAreaReversed \/ CallClip \/ CallLookup
    \/ CallIntersect \/ CallDifference \/ CallSubtract

SpecCalls == InitCalls /\ [][NextCalls]_vars

(***************************************************************************)
(* fracture/slice.rs: parallel slices, plain (fracture_slices_parallel)    *)
(* and with projection culling (fracture_slices_parallel_optimized), on a  *)
(* convex outer polygon.  An angle is the unit vector <<cos, sin>> of it.  *)
(* Both functions build SimpleRng::new(seed) and draw once per segment in  *)
(* the same order, so the seed is the sequence of the tilts drawn.         *)
(***************************************************************************)
\* The largest slice_count.
MaxSlices == 3
AngleZero == Vec2(1, 0, 1)
AngleQuarter == Vec2(0, 1, 1)
\* (45 * parallel_angle_rand) degrees for parallel_angle_rand = 0.8193...
DeviationWide == Vec2(4, 3, 5)

\* The vector v turned by the angle a.
rotated(v, a) == Vec2(v[1] * a[1] - v[2] * a[2], v[1] * a[2] + v[2] * a[1], v[3] * a[3])
\* The angle -a.
negated(a) == Vec2(a[1], 0 - a[2], a[3])
perp_of(dir) == Vec2(0 - dir[2], dir[1], dir[3])

OuterHigh == << Vec2(0 - 2, 8, 1), Vec2(2, 8, 1), Vec2(2, 12, 1), Vec2(0 - 2, 12, 1) >>

\* rng.randf_range(-max_angle_deviation, max_angle_deviation): randf() is
\* state / u64::MAX in [0, 1], so either end comes back.
TiltsOf(max_dev) ==
    IF max_dev = AngleZero THEN {AngleZero}
    ELSE {negated(max_dev), max_dev}

ParallelInputs ==
    UNION {{[polygons |-> polys, slice_count |-> n, parallel_angle |-> base,
             max_angle_deviation |-> dev, tilts |-> ts] :
                ts \in [1..(IF n < 0 THEN 0 ELSE n) -> TiltsOf(dev)]} :
            polys \in {<<OuterSquare>>, <<OuterWide>>, <<OuterHigh>>,
                       <<OuterHigh, HoleFar>>, <<OuterDegenerate>>, <<>>},
            n \in (0 - 1)..MaxSlices,
            base \in {AngleZero, AngleQuarter},
            dev \in {AngleZero, DeviationWide}}

\* The Parallel arm of generate_pattern_segments, and the same loop of
\* fracture_slices_parallel_optimized: segment i of slice_count.
parallel_segment(outer, slice_count, base_angle, tilt, i) ==
    LET bounds == calculate_bounds(outer)
        center == VAdd(bounds.position, VScale(bounds.size, Rat(1, 2)))
        max_extent == RMax(XOf(bounds.size), YOf(bounds.size))
        spacing == RDiv(RMul(max_extent, Rat(2, 1)), Rat(slice_count + 1, 1))
        dir == rotated(base_angle, tilt)
        perp == perp_of(dir)
        offset == VScale(perp, RSub(RMul(Rat(i, 1), spacing), max_extent))
    IN  << VSub(VAdd(center, offset), VScale(dir, max_extent)),
           VAdd(VAdd(center, offset), VScale(dir, max_extent)) >>

parallel_segments(outer, slice_count, base_angle, tilts) ==
    [i \in 1..(IF slice_count < 0 THEN 0 ELSE slice_count) |->
        parallel_segment(outer, slice_count, base_angle, tilts[i], i)]

\* bisect_outer on a convex polygon: vec![outer] when the segment misses,
\* else the pieces of at least three points on either side.
bisect_outer(outer, a, b) ==
    IF Len(find_polygon_intersections(outer, a, b)) < 2 THEN <<outer>>
    ELSE LET rects == half_plane_rects(outer, a, b)
         IN  ValidPieces(convex_intersect(outer, rects[1])
                         \o convex_intersect(outer, rects[2]))

\* for fragment in &current { next.extend(bisect_outer(fragment, a, b)); }
RECURSIVE BisectAllFrom(_, _, _)
BisectAllFrom(current, seg, k) ==
    IF k > Len(current) THEN <<>>
    ELSE bisect_outer(current[k], seg[1], seg[2]) \o BisectAllFrom(current, seg, k + 1)

\* The loop over the segments of apply_slices, from segment s on.
RECURSIVE SlicedFrom(_, _, _)
SlicedFrom(current, segs, s) ==
    IF s > Len(segs) THEN current
    ELSE LET next == BisectAllFrom(current, segs[s], 1)
         IN  SlicedFrom(IF next # <<>> THEN next ELSE current, segs, s + 1)

\* clipper2's difference of a piece and a hole that lies apart from it: the
\* piece.
apart_difference(frags, holes) ==
    [pq \in Range(frags) \X (1..Len(holes)) |-> ClipOk(<<pq[1]>>)]

\* for fragment in .. { for piece in subtract_all_holes(fragment, holes) {
\*     if piece.len() >= 3 { result.push(piece) } } }
RECURSIVE HolesOutFrom(_, _, _, _)
HolesOutFrom(frags, holes, diff, k) ==
    IF k > Len(frags) THEN <<>>
    ELSE ValidPieces(subtract_all_holes(frags[k], holes, diff).remaining)
         \o HolesOutFrom(frags, holes, diff, k + 1)

\* apply_slices
apply_slices(outer, holes, segs) ==
    LET current == SlicedFrom(<<outer>>, segs, 1)
    IN  HolesOutFrom(current, holes, apart_difference(current, holes), 1)

\* fracture_slices_parallel
fracture_slices_parallel(in) ==
    IF slice_rejects(in.polygons) THEN <<>>
    ELSE LET outer == in.polygons[1]
             segs == parallel_segments(outer, in.slice_count, in.parallel_angle, in.tilts)
         IN  IF segs = <<>> THEN in.polygons
             ELSE fragments_or_original(apply_slices(outer, CollectHoles(in.polygons), segs),
                                        in.polygons)

\* The closure conservative_bounds: <<min, max>> of the projections.
RECURSIVE ProjectionsFrom(_, _, _, _)
ProjectionsFrom(poly, perps, k, acc) ==
    IF k > Len(perps) THEN acc
    ELSE LET projs == [v \in 1..Len(poly) |-> VDot(poly[v], perps[k])]
             lo == FoldMin(projs, 1, IF acc = None THEN projs[1] ELSE acc[1])
             hi == FoldMax(projs, 1, IF acc = None THEN projs[1] ELSE acc[2])
         IN  ProjectionsFrom(poly, perps, k + 1, <<lo, hi>>)

conservative_bounds(poly, base_perp, max_dev) ==
    IF max_dev = AngleZero THEN ProjectionsFrom(poly, <<base_perp>>, 1, None)
    ELSE ProjectionsFrom(poly, << base_perp, rotated(base_perp, negated(max_dev)),
                                  rotated(base_perp, max_dev) >>, 1, None)

\* bounds_extent: the spread of the projections of every fragment in flight,
\* 1 when none is left.
bounds_extent(remaining, base_perp) ==
    LET all == Concat([k \in 1..Len(remaining) |->
                         [v \in 1..Len(remaining[k]) |-> VDot(remaining[k][v], base_perp)]])
    IN  IF all = <<>> THEN Rat(1, 1)
        ELSE RSub(FoldMax(all, 1, all[1]), FoldMin(all, 1, all[1]))

\* <<slice_proj_min, slice_proj_max>> of a segment.
slice_band(seg, remaining, base_perp, max_dev) ==
    LET seg_center == VScale(VAdd(seg[1], seg[2]), Rat(1, 2))
        slice_proj == VDot(seg_center, base_perp)
        margin_factor == RMul(RAbs(Rat(max_dev[2], max_dev[3])), Rat(1, 10))
        widening == RMul(margin_factor, bounds_extent(remaining, base_perp))
    IN  << RSub(slice_proj, widening), RAdd(slice_proj, widening) >>

\* Mutant of split_of: a fragment that touches the band from above stays in
\* flight.
split_of_KeepsTouching(min_proj, max_proj, band) ==
    IF ~RLess(min_proj, band[2]) THEN "keep"
    ELSE IF RLess(max_proj, band[1]) THEN "output"
    ELSE "bisect"

\* The three arms of the loop over the fragments in flight.
split_of(min_proj, max_proj, band) ==
    IF RLess(band[2], min_proj) THEN "keep"
    ELSE IF RLess(max_proj, band[1]) THEN "output"
    ELSE "bisect"

InitParallel ==
    /\ OtherIdle
    /\ rng = None /\ gen = None /\ call = None /\ trace = None
    /\ pc = "p_start"
    /\ \E in \in ParallelInputs :
          slices = [in |-> in, segments |-> <<>>, i |-> 0, j |-> 0, band |-> None,
                    remaining |-> <<>>, projs |-> <<>>,
                    new_remaining |-> <<>>, new_projs |-> <<>>,
                    output |-> <<>>, bisects |-> 0, last |-> None, plain |-> None]

ParallelFrame == UNCHANGED <<gridVars, contourVars, fractureVars, rng, gen, call, trace>>

base_perp_of(in) == perp_of(in.parallel_angle)

\* fracture_slices_parallel_optimized, the early returns of an empty array.
OptimizedReject ==
    /\ pc = "p_start"
    /\ slice_rejects(slices.in.polygons)
    /\ result' = <<>>
    /\ pc' = "p_plain"
    /\ UNCHANGED slices
    /\ ParallelFrame

\* fracture_slices_parallel_optimized up to the loop over the segments.
OptimizedEnter ==
    /\ pc = "p_start"
    /\ ~slice_rejects(slices.in.polygons)
    /\ LET in == slices.in
           outer == in.polygons[1]
       IN  slices' = [slices EXCEPT
               !.segments = parallel_segments(outer, in.slice_count, in.parallel_angle,
                                              in.tilts),
               !.remaining = <<outer>>,
               !.projs = <<conservative_bounds(outer, base_perp_of(in),
                                               in.max_angle_deviation)>>,
               !.i = 1, !.j = 0]
    /\ pc' = "p_segment"
    /\ UNCHANGED result
    /\ ParallelFrame

\* The head of `for (seg_a, seg_b) in segments`: the band of the segment.
OptimizedSegment ==
    /\ pc = "p_segment"
    /\ slices.i <= Len(slices.segments)
    /\ slices' = [slices EXCEPT
           !.band = slice_band(slices.segments[slices.i], slices.remaining,
                               base_perp_of(slices.in), slices.in.max_angle_deviation),
           !.new_remaining = <<>>, !.new_projs = <<>>, !.j = 1, !.last = None]
    /\ pc' = "p_fragment"
    /\ UNCHANGED result
    /\ ParallelFrame

\* One round of `for j in 0..remaining.len()`.
OptimizedFragment ==
    /\ pc = "p_fragment"
    /\ slices.j <= Len(slices.remaining)
    /\ LET fragment == slices.remaining[slices.j]
           interval == slices.projs[slices.j]
           seg == slices.segments[slices.i]
           arm == split_of(interval[1], interval[2], slices.band)
       IN  \E pieces \in {IF arm = "bisect" THEN bisect_outer(fragment, seg[1], seg[2])
                          ELSE <<>>} :
           slices' = [slices EXCEPT
               !.new_remaining = IF arm = "keep" THEN Append(@, fragment)
                                 ELSE IF arm = "bisect" THEN @ \o pieces ELSE @,
               !.new_projs =
                   IF arm = "keep" THEN Append(@, interval)
                   ELSE IF arm = "bisect"
                        THEN @ \o [k \in 1..Len(pieces) |->
                                      conservative_bounds(pieces[k], base_perp_of(slices.in),
                                                          slices.in.max_angle_deviation)]
                        ELSE @,
               !.output = IF arm = "output" THEN Append(@, fragment) ELSE @,
               !.bisects = IF arm = "bisect" THEN @ + 1 ELSE @,
               !.last = Some(pieces),
               !.j = @ + 1]
    /\ UNCHANGED <<pc, result>>
    /\ ParallelFrame

\* The foot of the loop over the segments: remaining = new_remaining.
OptimizedNextSegment ==
    /\ pc = "p_fragment"
    /\ slices.j > Len(slices.remaining)
    /\ slices' = [slices EXCEPT
           !.remaining = slices.new_remaining, !.projs = slices.new_projs,
           !.i = @ + 1, !.j = 0]
    /\ pc' = "p_segment"
    /\ UNCHANGED result
    /\ ParallelFrame

\* output.extend(remaining), the holes subtracted from every fragment, and
\* the input returned when nothing is left.
OptimizedReturn ==
    /\ pc = "p_segment"
    /\ slices.i > Len(slices.segments)
    /\ LET output == slices.output \o slices.remaining
           holes == CollectHoles(slices.in.polygons)
       IN  /\ slices' = [slices EXCEPT !.output = output, !.remaining = <<>>, !.projs = <<>>]
           /\ result' = fragments_or_original(
                            HolesOutFrom(output, holes, apart_difference(output, holes), 1),
                            slices.in.polygons)
    /\ pc' = "p_plain"
    /\ ParallelFrame

\* fracture_slices_parallel called with the same arguments.
PlainCall ==
    /\ pc = "p_plain"
    /\ slices' = [slices EXCEPT !.plain = Some(fracture_slices_parallel(slices.in))]
    /\ pc' = "done"
    /\ UNCHANGED result
    /\ ParallelFrame

NextParallel ==
    \/ OptimizedReject \/ OptimizedEnter \/ OptimizedSegment \/ OptimizedFragment
    \/ OptimizedNextSegment \/ OptimizedReturn \/ PlainCall

SpecParallel == InitParallel /\ [][NextParallel]_vars

(***************************************************************************)
(* contour/moore_neighbour.rs.  A pixel is <<x, y>>; the coordinates are   *)
(* whole numbers that f32 holds exactly.                                   *)
(***************************************************************************)
NEIGHBOR_DIRECTIONS ==
    << <<0 - 1, 0>>, <<0 - 1, 0 - 1>>, <<0, 0 - 1>>, <<1, 0 - 1>>,
       <<1, 0>>, <<1, 1>>, <<0, 1>>, <<0 - 1, 1>> >>
N_DIRECTIONS == 8
MAX_CONTOUR_POINTS == 1000000

\* Mutant of first_bottom_left_solid_pixel: the rows are scanned from the
\* top.
RECURSIVE first_bottom_left_solid_pixel_TopFirst(_, _)
first_bottom_left_solid_pixel_TopFirst(x, y) ==
    IF y < 0 \/ grid_width = 0 THEN None
    ELSE IF get_at(x, grid_height - 1 - y) = Some(TRUE) THEN Some(<<x, grid_height - 1 - y>>)
    ELSE IF x + 1 < grid_width THEN first_bottom_left_solid_pixel_TopFirst(x + 1, y)
    ELSE first_bottom_left_solid_pixel_TopFirst(0, y - 1)

\* grid.rs first_bottom_left_solid_pixel, the scan from pixel (x, y) on: rows
\* from the last to the first, each row from the left.
RECURSIVE first_bottom_left_solid_pixel(_, _)
first_bottom_left_solid_pixel(x, y) ==
    IF y < 0 \/ grid_width = 0 THEN None
    ELSE IF get_at(x, y) = Some(TRUE) THEN Some(<<x, y>>)
    ELSE IF x + 1 < grid_width THEN first_bottom_left_solid_pixel(x + 1, y)
    ELSE first_bottom_left_solid_pixel(0, y - 1)

\* The loop `for i in 0..N_DIRECTIONS` of either phase, from i on: the first
\* direction index whose pixel is inside the grid, solid and, when
\* skip_visited, not visited; None when there is none.
RECURSIVE FindNext(_, _, _, _, _)
FindNext(current_pixel, last_dir, seen, skip_visited, i) ==
    IF i >= N_DIRECTIONS THEN None
    ELSE LET dir_idx == (last_dir + 1 + i) % N_DIRECTIONS
             dir == NEIGHBOR_DIRECTIONS[dir_idx + 1]
             nx == current_pixel[1] + dir[1]
             ny == current_pixel[2] + dir[2]
         IN  IF /\ nx >= 0 /\ nx < grid_width /\ ny >= 0 /\ ny < grid_height
                /\ ~(skip_visited /\ <<nx, ny>> \in seen)
                /\ get_at(nx, ny) = Some(TRUE)
             THEN Some([dir_idx |-> dir_idx, next_pixel |-> <<nx, ny>>])
             ELSE FindNext(current_pixel, last_dir, seen, skip_visited, i + 1)

InitMoore ==
    /\ rng = None /\ gen = None /\ call = None /\ slices = None
    /\ InitGrid
    /\ FractureIdle
    /\ segments = <<>> /\ visited = {} /\ contours = <<>> /\ probe = None
    /\ result = <<>>
    /\ trace = None
    /\ pc = "m_start"

MooreFrame ==
    UNCHANGED <<gridVars, contourVars, fractureVars, rng, gen, call, slices>>

\* calculate: no solid pixel, the empty list is returned.
MooreEmpty ==
    /\ pc = "m_start"
    /\ first_bottom_left_solid_pixel(0, grid_height - 1) = None
    /\ result' = <<>>
    /\ pc' = "done"
    /\ UNCHANGED trace
    /\ MooreFrame

\* calculate up to the first loop.
MooreStart ==
    /\ pc = "m_start"
    /\ \E found \in {first_bottom_left_solid_pixel(0, grid_height - 1)} :
          /\ found # None
          /\ trace' = [start_pixel |-> found[1], visited |-> {}, points |-> <<found[1]>>,
                       current_pixel |-> found[1], last_dir |-> 0]
    /\ pc' = "m_first"
    /\ UNCHANGED result
    /\ MooreFrame

\* The first loop: the first solid neighbour, if there is one.
MooreFirst ==
    /\ pc = "m_first"
    /\ \E found \in {FindNext(trace.current_pixel, trace.last_dir, trace.visited, FALSE, 0)} :
          trace' = IF found = None THEN trace
                   ELSE [trace EXCEPT !.current_pixel = found[1].next_pixel,
                                      !.points = Append(@, found[1].next_pixel),
                                      !.visited = @ \cup {found[1].next_pixel},
                                      !.last_dir = found[1].dir_idx]
    /\ pc' = "m_trace"
    /\ UNCHANGED result
    /\ MooreFrame

\* while current_pixel != start_pixel && points.len() < MAX_CONTOUR_POINTS
trace_continues ==
    /\ trace.current_pixel # trace.start_pixel
    /\ Len(trace.points) < MAX_CONTOUR_POINTS

\* One round of the while loop that finds an unvisited solid neighbour.
MooreStep ==
    /\ pc = "m_trace"
    /\ trace_continues
    /\ \E found \in {FindNext(trace.current_pixel, trace.last_dir, trace.visited, TRUE, 0)} :
          /\ found # None
          /\ trace' = [trace EXCEPT !.current_pixel = found[1].next_pixel,
                                    !.points = Append(@, found[1].next_pixel),
                                    !.visited = @ \cup {found[1].next_pixel},
                                    !.last_dir = found[1].dir_idx + N_DIRECTIONS \div 2]
    /\ UNCHANGED <<pc, result>>
    /\ MooreFrame

\* The loop ends, by its condition or by the break, and vec![points] is
\* returned.
MooreReturn ==
    /\ pc = "m_trace"
    /\ \/ ~trace_continues
       \/ FindNext(trace.current_pixel, trace.last_dir, trace.visited, TRUE, 0) = None
    /\ result' = <<trace.points>>
    /\ pc' = "done"
    /\ UNCHANGED trace
    /\ MooreFrame

NextMoore == MooreEmpty \/ MooreStart \/ MooreFirst \/ MooreStep \/ MooreReturn

SpecMoore == InitMoore /\ [][NextMoore]_vars

(***************************************************************************)
(* Vocabulary of the properties.                                           *)
(***************************************************************************)
\* Row y of the row-major pixel buffer, and the pixel in column x of it.
PixelRow(y) == SubSeq(grid_data, y * grid_width + 1, (y + 1) * grid_width)
PixelAt(x, y) == PixelRow(y)[x + 1]

InRange(x, y) == 0 <= x /\ x < grid_width /\ 0 <= y /\ y < grid_height

SolidPixels ==
    {xy \in (0..(grid_width - 1)) \X (0..(grid_height - 1)) : PixelAt(xy[1], xy[2])}

\* Rationals <<n, d>>, d > 0.
RLeq(a, b) == a[1] * b[2] <= b[1] * a[2]
REq(a, b) == a[1] * b[2] = b[1] * a[2]
PX(p) == <<p[1], p[3]>>
PY(p) == <<p[2], p[3]>>

\* The bounding box of the points of c is [x0, x1] x [y0, y1].
BBoxIs(c, x0, x1, y0, y1) ==
    /\ \A i \in 1..Len(c) :
          /\ RLeq(x0, PX(c[i])) /\ RLeq(PX(c[i]), x1)
          /\ RLeq(y0, PY(c[i])) /\ RLeq(PY(c[i]), y1)
    /\ \E i \in 1..Len(c) : REq(PX(c[i]), x0)
    /\ \E i \in 1..Len(c) : REq(PX(c[i]), x1)
    /\ \E i \in 1..Len(c) : REq(PY(c[i]), y0)
    /\ \E i \in 1..Len(c) : REq(PY(c[i]), y1)

\* p and q are the two ends of a segment of generate_segments' output.
Joined(p, q) ==
    \E i \in 1..Len(segments) :
        LET a == Vec2(segments[i][1][1], segments[i][1][2], 2)
            b == Vec2(segments[i][2][1], segments[i][2][2], 2)
        IN  (a = p /\ b = q) \/ (a = q /\ b = p)

\* c is a closed loop: consecutive points, and the last with the first, are joined.
IsClosedLoop(c) ==
    /\ Len(c) > 2
    /\ \A i \in 1..Len(c) : Joined(c[i], c[(i % Len(c)) + 1])

Reverse(c) == [i \in 1..Len(c) |-> c[Len(c) + 1 - i]]

\* a is b started at another point.
IsRotationOf(a, b) ==
    /\ Len(a) = Len(b)
    /\ \E k \in 0..(Len(a) - 1) :
          \A i \in 1..Len(a) : a[i] = b[((i - 1 + k) % Len(a)) + 1]

\* The grid's solid pixels are exactly the rectangle of w x h pixels at (x0, y0).
IsFilledRect(x0, y0, w, h) ==
    /\ w >= 1 /\ h >= 1
    /\ x0 + w <= grid_width /\ y0 + h <= grid_height
    /\ SolidPixels = (x0..(x0 + w - 1)) \X (y0..(y0 + h - 1))

RectChoices == (0..MaxCells) \X (0..MaxCells) \X (1..MaxCells) \X (1..MaxCells)

\* The corners of the rectangle [x0, x0 + w] x [y0, y0 + h] covered by the pixels.
RectBoundary(x0, y0, w, h) ==
    << Vec2(x0, y0, 1), Vec2(x0 + w, y0, 1), Vec2(x0 + w, y0 + h, 1), Vec2(x0, y0 + h, 1) >>

\* p lies on the boundary of [x0, x0 + w] x [y0, y0 + h].
OnRectBoundary(p, x0, y0, w, h) ==
    /\ RLeq(<<x0, 1>>, PX(p)) /\ RLeq(PX(p), <<x0 + w, 1>>)
    /\ RLeq(<<y0, 1>>, PY(p)) /\ RLeq(PY(p), <<y0 + h, 1>>)
    /\ \/ REq(PX(p), <<x0, 1>>) \/ REq(PX(p), <<x0 + w, 1>>)
       \/ REq(PY(p), <<y0, 1>>) \/ REq(PY(p), <<y0 + h, 1>>)

\* The loop through the midpoints between the rectangle's border pixels and
\* their empty 4-neighbours: top row, right column, bottom row, left column.
MidpointLoop(x0, y0, w, h) ==
    [i \in 1..(2 * (w + h)) |->
        IF i <= w THEN Vec2(2 * (x0 + i - 1), 2 * y0 - 1, 2)
        ELSE IF i <= w + h THEN Vec2(2 * (x0 + w) - 1, 2 * (y0 + i - w - 1), 2)
        ELSE IF i <= 2 * w + h THEN Vec2(2 * (x0 + w - (i - w - h)), 2 * (y0 + h) - 1, 2)
        ELSE Vec2(2 * x0 - 1, 2 * (y0 + h - (i - 2 * w - h)), 2)]

(***************************************************************************)
(* Properties of marching_squares::calculate.                              *)
(***************************************************************************)
\* C1: for every grid without a solid pixel (zero width or height included),
\* calculate returns no contour.
C1_EmptyGridNoContours ==
    (pc = "done" /\ SolidPixels = {}) => result = <<>>

C1_Witness ==
    /\ pc = "done" /\ SolidPixels = {} /\ result = <<>>
    /\ grid_width * grid_height = MaxCells

\* C2 as stated: a grid whose only solid pixel is (x, y) gives exactly one closed
\* contour whose bounding box is the unit cell [x, x+1] x [y, y+1].
C2_AsStated ==
    \A xy \in (0..MaxCells) \X (0..MaxCells) :
        (pc = "done" /\ SolidPixels = {xy}) =>
            /\ Len(result) = 1
            /\ IsClosedLoop(result[1])
            /\ BBoxIs(result[1], <<xy[1], 1>>, <<xy[1] + 1, 1>>,
                                 <<xy[2], 1>>, <<xy[2] + 1, 1>>)

\* C2 amended: a grid whose only solid pixel is (x, y) gives exactly one closed
\* contour, of four points, whose bounding box is the unit square centred on
\* (x, y): [x - 1/2, x + 1/2] x [y - 1/2, y + 1/2].
C2_SinglePixelContour ==
    \A xy \in (0..MaxCells) \X (0..MaxCells) :
        (pc = "done" /\ SolidPixels = {xy}) =>
            /\ Len(result) = 1
            /\ Len(result[1]) = 4
            /\ IsClosedLoop(result[1])
            /\ BBoxIs(result[1], <<2 * xy[1] - 1, 2>>, <<2 * xy[1] + 1, 2>>,
                                 <<2 * xy[2] - 1, 2>>, <<2 * xy[2] + 1, 2>>)

C2_Witness ==
    /\ pc = "done" /\ Cardinality(SolidPixels) = 1 /\ Len(result) = 1
    /\ grid_width > 2 /\ <<1, 1>> \in SolidPixels

\* C3 as stated: a filled w x h rectangle of solid pixels gives exactly one
\* contour, and it is the boundary of the rectangle: every point lies on the
\* boundary of [x0, x0+w] x [y0, y0+h] and the four corners are among the points.
C3_AsStated ==
    \A r \in RectChoices :
        (pc = "done" /\ IsFilledRect(r[1], r[2], r[3], r[4])) =>
            /\ Len(result) = 1
            /\ \A i \in 1..Len(result[1]) :
                  OnRectBoundary(result[1][i], r[1], r[2], r[3], r[4])
            /\ \A j \in 1..4 : \E i \in 1..Len(result[1]) :
                  result[1][i] = RectBoundary(r[1], r[2], r[3], r[4])[j]

\* C3 amended: a filled w x h rectangle of solid pixels gives exactly one
\* contour, of 2(w+h) points: the closed loop through the midpoints between
\* the rectangle's border pixels and their empty neighbours (the rectangle
\* [x0 - 1/2, x0+w - 1/2] x [y0 - 1/2, y0+h - 1/2] with its corners cut), up to
\* the start point and the direction of travel.
C3_FilledRectContour ==
    \A r \in RectChoices :
        (pc = "done" /\ IsFilledRect(r[1], r[2], r[3], r[4])) =>
            /\ Len(result) = 1
            /\ \/ IsRotationOf(result[1], MidpointLoop(r[1], r[2], r[3], r[4]))
               \/ IsRotationOf(result[1], Reverse(MidpointLoop(r[1], r[2], r[3], r[4])))

C3_Witness ==
    /\ pc = "done" /\ Len(result) = 1
    /\ \E r \in RectChoices :
          /\ IsFilledRect(r[1], r[2], r[3], r[4])
          /\ r[3] >= 2 /\ r[4] >= 2 /\ r[1] >= 1

\* C4: the returned list is ordered by non-increasing point count and holds no
\* contour of two points or fewer.
C4_SortedByLength ==
    pc = "done" =>
        /\ \A i \in 1..(Len(result) - 1) : Len(result[i]) >= Len(result[i + 1])
        /\ \A i \in 1..Len(result) : Len(result[i]) > 2

C4_Witness ==
    /\ pc = "done" /\ Len(result) >= 2
    /\ Len(result[1]) > Len(result[2])
    /\ result # contours

(***************************************************************************)
(* Properties of Grid2D<bool>::get.                                        *)
(***************************************************************************)
\* C5: a lookup with signed coordinates yields None outside
\* [0, width) x [0, height) and the stored pixel inside; every corner the
\* tracer reads at -1, width or height counts as empty.
C5_LookupNeverFails ==
    /\ probe # None =>
          LET x == probe[1].x
              y == probe[1].y
          IN  /\ ~InRange(x, y) => probe[1].value = None
              /\ InRange(x, y) => probe[1].value = Some(PixelAt(x, y))
    /\ \A cx \in (0 - 1)..grid_width, cy \in (0 - 1)..grid_height :
          ~InRange(cx, cy) => ~Corner(cx, cy)

C5_Witness ==
    /\ probe # None
    /\ probe[1].x = 0 - 1 /\ probe[1].y = grid_height
    /\ grid_width = 2 /\ grid_height = 2
    /\ probe[1].value = None

(***************************************************************************)
(* Claims about voronoi::fracture and slice::fracture.                     *)
(***************************************************************************)
OuterIsValid == polygons # <<>> /\ Len(polygons[1]) >= 3

\* C6 as stated: voronoi::fracture with fewer than 2 seed points and an outer
\* polygon of at least 3 vertices returns the input polygon list unchanged, and
\* an empty result with fewer than 2 seeds means the outer polygon has fewer
\* than 3 vertices (or no polygon was given).
C6_AsStated ==
    (pc = "done" /\ Len(seed_points) < 2) =>
        /\ OuterIsValid => result = polygons
        /\ result = <<>> => ~OuterIsValid

\* C7 as stated, for the entry point voronoi::fracture: whenever the outer
\* polygon has at least 3 vertices the returned fragment list is non-empty,
\* whatever the seeds and whatever the triangulator and the clipper return.
C7_AsStated ==
    (pc = "done" /\ OuterIsValid) => result # <<>>

\* C8: in voronoi::fracture with at least 2 seeds and a valid outer polygon,
\* when the triangulation yields no triangles, or when no piece with at least
\* 3 vertices is left after cell clipping and hole subtraction, the result is
\* exactly the input polygon list, holes included and in the same order.
C8_FallbackIsInput ==
    (pc = "done" /\ Len(seed_points) >= 2 /\ OuterIsValid) =>
        ((triangulation = Some(<<>>) \/ fragments = <<>>) => result = polygons)

\* C8's case: every cell was clipped, holes were there to subtract, and no
\* valid piece came out.
C8_Witness ==
    /\ pc = "done"
    /\ Len(seed_points) >= 3
    /\ OuterIsValid
    /\ Len(polygons) = 2
    /\ Len(polygons[2]) >= 3
    /\ triangulation # None
    /\ cell_idx > Len(seed_points)
    /\ clip_calls > Len(seed_points)
    /\ fragments = <<>>
    /\ result = polygons

RECURSIVE SumAreas(_, _)
SumAreas(polys, i) ==
    IF i > Len(polys) THEN Zero
    ELSE RAdd(polygon_area(polys[i]), SumAreas(polys, i + 1))

\* C9 as stated: voronoi::fracture of a square without holes and exactly 2
\* well-separated seed points inside it returns exactly 2 fragments, each of
\* positive area, whose areas sum to the area of the square.
C9_AsStated ==
    (pc = "done" /\ polygons = <<OuterSquare>> /\ Len(seed_points) = 2) =>
        /\ Len(result) = 2
        /\ \A i \in 1..Len(result) : RLess(Zero, polygon_area(result[i]))
        /\ REq(SumAreas(result, 1), polygon_area(OuterSquare))

\* C10: slice::fracture with a slice line that meets fewer than 2 edges of the
\* outer polygon returns the input polygon list unchanged (same polygons, same
\* order, holes not subtracted) and does not invoke the boolean clipper.
C10_MissReturnsInput ==
    (/\ pc = "done"
     /\ OuterIsValid
     /\ Len(find_polygon_intersections(polygons[1], line_start, line_end)) < 2) =>
        /\ result = polygons
        /\ clip_calls = 0
        /\ fragments = <<>>

\* C10's case: a line that ends inside the square, one edge met, a hole in
\* the list.
C10_Witness ==
    /\ pc = "done"
    /\ polygons = <<OuterSquare, HoleTriangle>>
    /\ Len(find_polygon_intersections(polygons[1], line_start, line_end)) = 1
    /\ result = polygons
    /\ clip_calls = 0

\* The slice line properly crosses the outer polygon: it meets two edges in two
\* different points, and the polygon has a vertex strictly on either side.
ProperCrossing ==
    LET hits == find_polygon_intersections(polygons[1], line_start, line_end)
    IN  /\ Len(hits) = 2
        /\ hits[1] # hits[2]
        /\ \E i \in 1..Len(polygons[1]) :
              RLess(Zero, VCross(line_start, line_end, polygons[1][i]))
        /\ \E i \in 1..Len(polygons[1]) :
              RLess(VCross(line_start, line_end, polygons[1][i]), Zero)

\* C11 as stated: slice::fracture of a convex polygon without holes by a line
\* that crosses it at exactly 2 edge points returns exactly 2 fragments whose
\* areas (unsigned) sum to the area of the polygon.
C11_AsStated ==
    (pc = "done" /\ OuterIsValid /\ ProperCrossing) =>
        /\ Len(result) = 2
        /\ REq(RAdd(RAbs(polygon_area(result[1])), RAbs(polygon_area(result[2]))),
               RAbs(polygon_area(polygons[1])))

min_dist_of(g) ==
    IF g.kind \in {"radial", "spiderweb"} THEN bounds_min_dist(g) ELSE padded_min_dist(g)

\* C13: in each of the five generators, at every step and in the returned
\* list, every two accepted points (at different places of the list) are at a
\* squared distance of at least min_dist squared; Poisson's first point and
\* the spiderweb's centre are part of the list.
C13_AcceptedPointsSeparated ==
    gen # None =>
        \A i \in 1..Len(gen.points) : \A j \in 1..Len(gen.points) :
           i < j =>
              ~RLess(length_squared(VSub(gen.points[i], gen.points[j])),
                     RMul(min_dist_of(gen.in), min_dist_of(gen.in)))

\* C13's case: Poisson-disk sampling returned its first point and a second
\* one found around it, with a positive minimum distance.
C13_Witness ==
    /\ gen # None /\ pc = "done"
    /\ gen.in.kind = "poisson"
    /\ Len(result) >= 2
    /\ RLess(Zero, min_dist_of(gen.in))

\* C14: every point a generator returns satisfies point_in_polygon for the
\* source polygon, and a polygon of fewer than 3 vertices yields no seed.
C14_ReturnedPointsInside ==
    (gen # None /\ pc = "done") =>
        /\ \A i \in 1..Len(result) : point_in_polygon(result[i], gen.in.polygon)
        /\ Len(gen.in.polygon) < 3 => result = <<>>

\* C14's case: the spiderweb returned its centre and a ring point after it
\* had turned a candidate down.
C14_Witness ==
    /\ gen # None /\ pc = "done"
    /\ gen.in.kind = "spiderweb"
    /\ Len(result) >= 2
    /\ Len(result) < 1 + gen.in.points_per_ring * gen.in.ring_count

(***************************************************************************)
(* Properties of the pure functions.                                       *)
(***************************************************************************)
\* C15: polygon_area gives the same value for every cyclic rotation of the
\* point list and the negated value for the reversed list, and 0 for a list
\* of fewer than 3 points.
C15_AreaRotationReversal ==
    (call # None /\ pc = "called" /\ call.fn = "polygon_area") =>
        /\ REq(call.out, IF call.backwards THEN RSub(Zero, call.first) ELSE call.first)
        /\ Len(call.polygon) < 3 => call.out = Zero

\* C15's case: a quadrilateral of non-zero area, rotated and reversed.
C15_Witness ==
    /\ call # None /\ pc = "called" /\ call.fn = "polygon_area"
    /\ Len(call.polygon) = 4
    /\ call.backwards /\ call.shift >= 1
    /\ ~REq(call.out, Zero)

\* (v - plane_point) . plane_normal of vertex i of the call's polygon
vertex_dist(i) ==
    VDot(VSub(call.polygon[i], call.plane_point), call.plane_normal)

\* C16: on a polygon of at least 3 points, clip_polygon_to_half_plane returns
\* the input sequence itself when every vertex has a distance >= 0, and the
\* empty list when every vertex has a distance < 0.
C16_ClipAllInsideAllOutside ==
    (call # None /\ pc = "called" /\ call.fn = "clip_polygon_to_half_plane"
        /\ Len(call.polygon) >= 3) =>
        /\ (\A i \in 1..Len(call.polygon) : ~RLess(vertex_dist(i), Zero))
              => call.out = call.polygon
        /\ (\A i \in 1..Len(call.polygon) : RLess(vertex_dist(i), Zero))
              => call.out = <<>>

\* C16's case: a polygon of non-zero area lies in the half-plane with a
\* vertex on the plane itself.
C16_Witness ==
    /\ call # None /\ pc = "called" /\ call.fn = "clip_polygon_to_half_plane"
    /\ Len(call.polygon) >= 3
    /\ ~REq(polygon_area(call.polygon), Zero)
    /\ \A i \in 1..Len(call.polygon) : ~RLess(vertex_dist(i), Zero)
    /\ \E i \in 1..Len(call.polygon) : REq(vertex_dist(i), Zero)

\* The cell edges whose two corners differ: Top joins tl and tr, Right joins
\* tr and br, Bottom joins br and bl, Left joins bl and tl.
differing_edges ==
    (IF call.tl # call.tr THEN {"Top"} ELSE {})
        \cup (IF call.tr # call.br THEN {"Right"} ELSE {})
        \cup (IF call.br # call.bl THEN {"Bottom"} ELSE {})
        \cup (IF call.bl # call.tl THEN {"Left"} ELSE {})

\* How often an edge is an endpoint of the segments looked up.
uses_of(edge) ==
    Cardinality({<<i, k>> \in (1..Len(call.out)) \X (1..2) : call.out[i][k] = edge})

\* C19: for each of the 16 codes, the edges SEGMENT_LOOKUP[code] uses as
\* endpoints are exactly the cell edges whose corner bits differ, each once:
\* no segment for codes 0 and 15, two segments on four distinct edges for
\* codes 5 and 10, one segment for every other code.
C19_LookupMatchesCorners ==
    (call # None /\ pc = "called" /\ call.fn = "SEGMENT_LOOKUP") =>
        LET code == config_of(call.tl, call.tr, call.br, call.bl)
        IN  /\ \A edge \in {"Top", "Right", "Bottom", "Left"} :
                  uses_of(edge) = IF edge \in differing_edges THEN 1 ELSE 0
            /\ Len(call.out) = CASE code \in {0, 15} -> 0
                                 [] code \in {5, 10} -> 2
                                 [] OTHER -> 1

\* C19's case: the saddle code 5 (tr and bl solid) has been looked up.
C19_Witness ==
    /\ call # None /\ pc = "called" /\ call.fn = "SEGMENT_LOOKUP"
    /\ ~call.tl /\ call.tr /\ ~call.br /\ call.bl
    /\ Len(call.out) = 2

(***************************************************************************)
(* Properties of the clipper wrappers.                                     *)
(***************************************************************************)
\* The hole k of the call is skipped by the spatial culling of voronoi.rs.
culled(k) ==
    /\ call.fn = "subtract_holes"
    /\ ~rects_intersect(calculate_bounds(call.fragment), calculate_bounds(call.holes[k]))

\* C17: when the clipper reports an error clipper2_intersect returns the
\* empty list and clipper2_difference returns the list holding the subject
\* alone; and in the hole subtraction of voronoi.rs and of slice.rs a piece
\* whose difference with a hole fails is still in `remaining` after that hole.
C17_ClipperErrorFallbacks ==
    (call # None /\ pc = "called") =>
        /\ (call.fn = "clipper2_intersect" /\ call.raw = ClipErr) => call.out = <<>>
        /\ (call.fn = "clipper2_difference" /\ call.raw = ClipErr)
              => call.out = <<call.subject>>
        /\ call.fn \in {"subtract_holes", "subtract_all_holes"} =>
              \A k \in 1..Len(call.holes) : \A i \in 1..Len(call.out[k]) :
                 (~culled(k) /\ call.diff[<<call.out[k][i], k>>] = ClipErr)
                    => \E j \in 1..Len(call.out[k + 1]) :
                          call.out[k + 1][j] = call.out[k][i]

\* C17's case: the difference of the fragment with a hole that overlaps it
\* failed, and the hole subtraction has returned.
C17_Witness ==
    /\ call # None /\ pc = "called"
    /\ call.fn = "subtract_holes"
    /\ Len(call.holes) >= 1
    /\ ~culled(1)
    /\ call.diff[<<call.fragment, 1>>] = ClipErr
    /\ call.out[2] = <<call.fragment>>

(***************************************************************************)
(* Properties of chain_segments.                                           *)
(***************************************************************************)
\* How often a point stands in the contours kept so far.
appearances(point) ==
    Cardinality({ij \in UNION {{<<i, j>> : j \in 1..Len(contours[i])} :
                                  i \in 1..Len(contours)} :
                    contours[ij[1]][ij[2]] = point})

C20_TwoDistinctNeighbours ==
    pc \in {"chain", "done"} =>
        \A k \in AdjacencyKeys(segments) :
           /\ Len(Neighbours(segments, k)) = 2
           /\ Neighbours(segments, k)[1] # Neighbours(segments, k)[2]

\* C20's case: a grid of two solid pixels that touch by a corner only, so a
\* saddle cell lies between them, with its segments built.
C20_Witness ==
    /\ pc = "chain"
    /\ grid_width = 2 /\ grid_height = 2
    /\ grid_data = <<TRUE, FALSE, FALSE, TRUE>>
    /\ Len(segments) = 8

(***************************************************************************)
(* Properties of the contours returned by marching_squares::calculate.     *)
(***************************************************************************)
\* Points a and b are the two ends of segment s.
joins(s, a, b) ==
    \/ KeyToVector2(s[1]) = a /\ KeyToVector2(s[2]) = b
    \/ KeyToVector2(s[1]) = b /\ KeyToVector2(s[2]) = a

\* The point after place j of a contour, the first point after the last.
after(contour, j) == contour[(j % Len(contour)) + 1]

\* The places <<i, j>> of the returned contours whose edge is segment s.
edges_of(s) ==
    {ij \in UNION {{<<i, j>> : j \in 1..Len(result[i])} : i \in 1..Len(result)} :
        joins(s, result[ij[1]][ij[2]], after(result[ij[1]], ij[2]))}

\* C21: every returned contour is a closed loop of generated segments: each
\* point and the next one, the first after the last, are the ends of a
\* segment; no point stands twice in a contour; and every segment is the
\* edge of exactly one place of one contour.
C21_ContoursAreClosedLoops ==
    (pc = "done" /\ call = None /\ gen = None) =>
        /\ \A i \in 1..Len(result) : \A j \in 1..Len(result[i]) :
              /\ \E n \in 1..Len(segments) :
                    joins(segments[n], result[i][j], after(result[i], j))
              /\ \A k \in 1..Len(result[i]) : result[i][k] = result[i][j] => k = j
        /\ \A n \in 1..Len(segments) : Cardinality(edges_of(segments[n])) = 1

\* C21's case: two solid pixels apart from each other gave two contours.
C21_Witness ==
    /\ pc = "done"
    /\ grid_width = 3 /\ grid_height = 1
    /\ grid_data = <<TRUE, FALSE, TRUE>>
    /\ Len(result) = 2

(***************************************************************************)
(* Properties of the slice line.                                           *)
(***************************************************************************)
\* The infinite line through a and b crosses the polygon edge b1-b2: the
\* directions are not parallel and the crossing lies on the edge.
line_crosses_edge(a, b, b1, b2) ==
    LET d1 == VSub(b, a)
        d2 == VSub(b2, b1)
        cross == RSub(RMul(XOf(d1), YOf(d2)), RMul(YOf(d1), XOf(d2)))
        d == VSub(b1, a)
        u == RDiv(RSub(RMul(XOf(d), YOf(d1)), RMul(YOf(d), XOf(d1))), cross)
    IN  IF cross = Zero THEN FALSE
        ELSE ~RLess(u, Zero) /\ ~RLess(Rat(1, 1), u)

\* The edges of the outer polygon the infinite slice line crosses.
crossed_edges ==
    {i \in 1..Len(polygons[1]) :
        line_crosses_edge(line_start, line_end, polygons[1][i],
                          polygons[1][(i % Len(polygons[1])) + 1])}

\* C22 as stated: when the infinite line through line_start and line_end
\* crosses two edges of the outer polygon, slice::fracture counts two
\* intersections and splits the polygon, also when the segment itself lies
\* inside the polygon.
C22_AsStated ==
    (pc = "done" /\ OuterIsValid /\ Cardinality(crossed_edges) = 2) =>
        /\ Len(find_polygon_intersections(polygons[1], line_start, line_end)) = 2
        /\ result # polygons

\* Point p lies in the convex quadrilateral rect, its border included: p is
\* on one side of all four edges.
in_rect(p, rect) ==
    \/ \A i \in 1..4 : ~RLess(VCross(rect[i], rect[(i % 4) + 1], p), Zero)
    \/ \A i \in 1..4 : ~RLess(Zero, VCross(rect[i], rect[(i % 4) + 1], p))

\* C23 as stated: when the slice segment has at least 2 intersections with
\* the outer polygon, every vertex of the outer polygon lies in one of the
\* two clip rectangles built by build_half_plane_rect.
C23_AsStated ==
    (pc = "done" /\ OuterIsValid /\ clip_rects # <<>>
        /\ Len(find_polygon_intersections(polygons[1], line_start, line_end)) >= 2) =>
        \A i \in 1..Len(polygons[1]) :
           in_rect(polygons[1][i], clip_rects[1]) \/ in_rect(polygons[1][i], clip_rects[2])

(***************************************************************************)
(* Properties of generate_poisson's attempt budget.                        *)
(***************************************************************************)
\* C24 as stated: generate_poisson never makes more than
\* fragment_count * poisson_attempts placement attempts in total.
C24_AsStated ==
    (gen # None /\ gen.in.kind = "poisson") =>
        gen.total_attempts <= gen.in.fragment_count * gen.in.poisson_attempts

\* The interval of a fragment meets the widened projection of the segment.
straddles(interval, band) == ~RLess(band[2], interval[1]) /\ ~RLess(interval[2], band[1])

is_prefix(s, t) == Len(s) <= Len(t) /\ SubSeq(t, 1, Len(s)) = s

\* C25: in fracture_slices_parallel_optimized every round of the loop over
\* the fragments in flight calls bisect_outer exactly when the fragment's
\* interval meets the band of the segment; a fragment above the band stays in
\* flight unchanged with its interval; a fragment below the band is appended
\* to the output; the output only ever grows at its end, so a fragment in it
\* is not looked at again, and every fragment of the output is in the value
\* returned; every round accounts for its fragment exactly once.
C25_ThreeWaySplit ==
    /\ [][(pc = "p_fragment" /\ slices'.j = slices.j + 1) =>
            LET fragment == slices.remaining[slices.j]
                interval == slices.projs[slices.j]
                band == slices.band
            IN  /\ (slices'.bisects = slices.bisects + 1) <=> straddles(interval, band)
                /\ (slices'.bisects = slices.bisects) <=> ~straddles(interval, band)
                /\ RLess(band[2], interval[1]) =>
                       /\ slices'.new_remaining = Append(slices.new_remaining, fragment)
                       /\ slices'.new_projs = Append(slices.new_projs, interval)
                       /\ slices'.output = slices.output
                /\ RLess(interval[2], band[1]) =>
                       /\ slices'.output = Append(slices.output, fragment)
                       /\ slices'.new_remaining = slices.new_remaining
                /\ straddles(interval, band) =>
                       /\ slices'.output = slices.output
                       /\ slices'.new_remaining = slices.new_remaining \o slices'.last[1]
                /\ slices'.remaining = slices.remaining]_vars
    /\ [][slices # None /\ slices' # None => is_prefix(slices.output, slices'.output)]_vars
    /\ [][(pc = "p_fragment" /\ pc' = "p_segment") =>
            /\ slices'.remaining = slices.new_remaining
            /\ slices'.projs = slices.new_projs]_vars
    /\ [](pc \in {"p_plain", "done"} /\ ~slice_rejects(slices.in.polygons) =>
            \A k \in 1..Len(slices.output) : slices.output[k] \in Range(result))

\* A run in which every arm was taken: a fragment was kept in flight, one
\* was bisected and one was moved to the output, which is returned.
C25_Witness ==
    /\ pc = "done"
    /\ slices.in.polygons = <<OuterWide>>
    /\ slices.in.slice_count = 3
    /\ slices.in.parallel_angle = AngleZero
    /\ slices.bisects = 1
    /\ Len(slices.output) = 2
    /\ Len(result) = 2

\* Two lists hold the same fragments: the same polygons as point sets, in
\* any order.
same_fragments(a, b) == {Range(a[k]) : k \in 1..Len(a)} = {Range(b[k]) : k \in 1..Len(b)}

\* C26 as stated: for the same arguments fracture_slices_parallel_optimized
\* returns the fragments fracture_slices_parallel returns.
C26_AsStated == pc = "done" => same_fragments(result, slices.plain[1])

\* The keys joined to a key of `seen` by a chain of segments.
RECURSIVE ComponentFrom(_, _)
ComponentFrom(segs, seen) ==
    LET more == seen \cup {k \in AdjacencyKeys(segs) :
                               \E n \in 1..Len(segs) :
                                  \/ segs[n][1] \in seen /\ segs[n][2] = k
                                  \/ segs[n][2] \in seen /\ segs[n][1] = k}
    IN  IF more = seen THEN seen ELSE ComponentFrom(segs, more)

\* The component of the segments of the grid that holds a point, as its set
\* of points: a value of the grid alone.
component_of(segs, point) ==
    {KeyToVector2(k) :
        k \in ComponentFrom(segs, {k \in AdjacencyKeys(segs) : KeyToVector2(k) = point})}

\* C27: whatever order the adjacency map is iterated in, calculate returns
\* one contour per component of the segments of the grid, holding exactly the
\* points of that component once each, every point followed by one of its
\* two neighbours (the first after the last), longest contour first.  The
\* components and their neighbour relation depend on the grid alone, so two
\* runs differ at most in where a contour starts, in its direction, and in
\* the order of contours of one length.
C27_ResultIsOrderFree ==
    (pc = "done" /\ call = None /\ gen = None /\ slices = None) =>
        /\ \A i \in 1..Len(result) :
              /\ Range(result[i]) = component_of(segments, result[i][1])
              /\ Len(result[i]) = Cardinality(Range(result[i]))
              /\ \A j \in 1..Len(result[i]) :
                    \E n \in 1..Len(segments) :
                       joins(segments[n], result[i][j], after(result[i], j))
              /\ \A h \in 1..(i - 1) : result[i][1] \notin Range(result[h])
        /\ \A k \in AdjacencyKeys(segments) :
              \E i \in 1..Len(result) : KeyToVector2(k) \in Range(result[i])
        /\ \A i \in 1..(Len(result) - 1) : Len(result[i]) >= Len(result[i + 1])

\* C27's case: two components of different length, and the run began in the
\* middle of the shorter one, at a point that is not the first of its
\* segment list.
C27_Witness ==
    /\ pc = "done"
    /\ Len(result) = 2
    /\ Len(result[1]) > Len(result[2])
    /\ Len(contours) = 2
    /\ contours[1] = result[2]
    /\ \E n \in 2..Len(segments) : contours[1][1] = KeyToVector2(segments[n][2])
    /\ contours[1][1] # KeyToVector2(segments[1][1])

\* Two rectangles share a region of positive width and height.
overlap(a, b) ==
    /\ RLess(RMax(XOf(a.position), XOf(b.position)),
             RMin(RAdd(XOf(a.position), XOf(a.size)), RAdd(XOf(b.position), XOf(b.size))))
    /\ RLess(RMax(YOf(a.position), YOf(b.position)),
             RMin(RAdd(YOf(a.position), YOf(a.size)), RAdd(YOf(b.position), YOf(b.size))))

\* C28: subtract_holes of voronoi.rs leaves `remaining` as it is at a hole
\* exactly when the hole's bounding box does not overlap the bounding box of
\* the fragment passed in, whatever pieces are left by then; at every other
\* hole, and so at every hole whose box overlaps the box of a piece that is
\* left, each piece is replaced by its difference with the hole; without
\* holes the list holding the fragment is returned.
C28_HoleCulling ==
    (call # None /\ pc = "called" /\ call.fn = "subtract_holes") =>
        /\ call.out[1] = <<call.fragment>>
        /\ \A k \in 1..Len(call.holes) :
              LET hole_box == calculate_bounds(call.holes[k])
                  subtracted == DifferenceAll(call.out[k], k, call.diff, 1)
              IN  /\ overlap(calculate_bounds(call.fragment), hole_box)
                        => call.out[k + 1] = subtracted
                  /\ ~overlap(calculate_bounds(call.fragment), hole_box)
                        => call.out[k + 1] = call.out[k]
                  /\ (\E i \in 1..Len(call.out[k]) :
                         overlap(calculate_bounds(call.out[k][i]), hole_box))
                        => call.out[k + 1] = subtracted

\* C28's case: the first hole split the square in two pieces, the second
\* hole's box overlaps the square's and one piece's but not the other's, and
\* it was subtracted from both; and a hole whose box touches the square's was
\* passed over.
C28_Witness ==
    /\ call # None /\ pc = "called" /\ call.fn = "subtract_holes"
    /\ call.fragment = OuterSquare
    /\ call.holes = <<HoleTriangle, HoleTriangle>>
    /\ call.out[2] = <<PieceTriangle, PieceCorner>>
    /\ ~overlap(calculate_bounds(PieceCorner), calculate_bounds(HoleTriangle))
    /\ call.out[3] = <<PieceCorner, PieceTriangle, PieceCorner>>
    /\ ~rects_intersect(calculate_bounds(OuterSquare), calculate_bounds(HoleTouching))

\* C29 as stated: for every i64 seed the construction of either generator
\* succeeds, and the state is not zero after it and after every step.
C29_AsStated ==
    /\ pc # "w_panic"
    /\ pc = "w_ready" => rng.state # ZeroWord

\* The pixels of the grid, and the solid ones.
pixels == {xy \in (0..(grid_width - 1)) \X (0..(grid_height - 1)) : TRUE}
solid_pixels == {xy \in pixels : grid_data[xy[2] * grid_width + xy[1] + 1]}

\* C30: the trace of moore_neighbour::calculate ends: every round of its
\* loop marks one more pixel of the grid as visited, and from every point of
\* the loop a round or the return is possible.  Without a solid pixel the
\* empty list is returned; otherwise one list, which starts at the solid
\* pixel of the last row that has one, leftmost in that row, holds only
\* solid pixels of the grid, holds no pixel twice but for the start pixel,
\* which may stand once more as the last point, and so has at most
\* width * height + 1 points.
C30_TraceTerminates ==
    /\ [][(pc = "m_trace" /\ pc' = "m_trace") =>
            /\ trace.visited \subseteq trace'.visited
            /\ Cardinality(trace'.visited) = Cardinality(trace.visited) + 1
            /\ trace'.visited \subseteq pixels]_vars
    /\ [][pc = "m_trace" => pc' \in {"m_trace", "done"}]_vars
    /\ [](pc = "done" =>
            IF solid_pixels = {} THEN result = <<>>
            ELSE /\ Len(result) = 1
                 /\ result[1][1] \in solid_pixels
                 /\ \A q \in solid_pixels :
                       \/ q[2] < result[1][1][2]
                       \/ q[2] = result[1][1][2] /\ q[1] >= result[1][1][1]
                 /\ \A j \in 1..Len(result[1]) : result[1][j] \in solid_pixels
                 /\ \A j \in 1..Len(result[1]) : \A k \in (j + 1)..Len(result[1]) :
                       result[1][j] = result[1][k] => j = 1 /\ k = Len(result[1])
                 /\ Len(result[1]) <= grid_width * grid_height + 1)

\* C30's case: a trace over four solid pixels came back to its start pixel,
\* which stands first and last in the list returned.
C30_Witness ==
    /\ pc = "done"
    /\ trace # None
    /\ Len(result) = 1
    /\ Len(result[1]) = 5
    /\ result[1][5] = result[1][1]
    /\ Cardinality(solid_pixels) >= 4
====
